---- MODULE Spec2Model ----
(***************************************************************************)
(* ODKey host toolchain: the ODKeyScript compiler and disassembler         *)
(* (odkeyscript_compiler.py, odkeyscript_disassembler.py) and the Raw-HID  *)
(* configuration transport (odkey_config_usb.py), as state machines.       *)
(***************************************************************************)
EXTENDS Integers, Sequences, FiniteSets, TLC

(***************************************************************************)
(* Opcode (odkeyscript_compiler.py 14-23, odkeyscript_disassembler.py      *)
(* 12-21). 0x10 .. 0x16.                                                    *)
(***************************************************************************)
OP_KEYDN == 16
OP_KEYUP == 17
OP_KEYUP_ALL == 18
OP_WAIT == 19
OP_SET_COUNTER == 20
OP_DEC == 21
OP_JNZ == 22

(***************************************************************************)
(* Lexer.KEY_MAP and Lexer.MODIFIER_MAP: name -> HID usage code / bit.     *)
(***************************************************************************)
KEY_MAP ==
    ("A" :> 4) @@ ("B" :> 5) @@ ("C" :> 6) @@ ("D" :> 7) @@ ("E" :> 8) @@
    ("F" :> 9) @@ ("G" :> 10) @@ ("H" :> 11) @@ ("I" :> 12) @@ ("J" :> 13) @@
    ("K" :> 14) @@ ("L" :> 15) @@ ("M" :> 16) @@ ("N" :> 17) @@
    ("O" :> 18) @@ ("P" :> 19) @@ ("Q" :> 20) @@ ("R" :> 21) @@
    ("S" :> 22) @@ ("T" :> 23) @@ ("U" :> 24) @@ ("V" :> 25) @@
    ("W" :> 26) @@ ("X" :> 27) @@ ("Y" :> 28) @@ ("Z" :> 29) @@
    ("1" :> 30) @@ ("2" :> 31) @@ ("3" :> 32) @@ ("4" :> 33) @@
    ("5" :> 34) @@ ("6" :> 35) @@ ("7" :> 36) @@ ("8" :> 37) @@
    ("9" :> 38) @@ ("0" :> 39) @@ ("ENTER" :> 40) @@ ("ESCAPE" :> 41) @@
    ("BACKSPACE" :> 42) @@ ("TAB" :> 43) @@ ("SPACE" :> 44) @@
    ("MINUS" :> 45) @@ ("EQUAL" :> 46) @@ ("LEFTBRACE" :> 47) @@
    ("RIGHTBRACE" :> 48) @@ ("BACKSLASH" :> 49) @@ ("NONUS_HASH" :> 50) @@
    ("SEMICOLON" :> 51) @@ ("APOSTROPHE" :> 52) @@ ("GRAVE" :> 53) @@
    ("COMMA" :> 54) @@ ("DOT" :> 55) @@ ("SLASH" :> 56) @@
    ("CAPSLOCK" :> 57) @@ ("F1" :> 58) @@ ("F2" :> 59) @@ ("F3" :> 60) @@
    ("F4" :> 61) @@ ("F5" :> 62) @@ ("F6" :> 63) @@ ("F7" :> 64) @@
    ("F8" :> 65) @@ ("F9" :> 66) @@ ("F10" :> 67) @@ ("F11" :> 68) @@
    ("F12" :> 69) @@ ("UP" :> 82) @@ ("DOWN" :> 81) @@ ("LEFT" :> 80) @@
    ("RIGHT" :> 79) @@ ("NUMLOCK" :> 83) @@ ("KP_SLASH" :> 84) @@
    ("KP_ASTERISK" :> 85) @@ ("KP_MINUS" :> 86) @@ ("KP_PLUS" :> 87) @@
    ("KP_ENTER" :> 88) @@ ("KP_1" :> 89) @@ ("KP_2" :> 90) @@
    ("KP_3" :> 91) @@ ("KP_4" :> 92) @@ ("KP_5" :> 93) @@ ("KP_6" :> 94) @@
    ("KP_7" :> 95) @@ ("KP_8" :> 96) @@ ("KP_9" :> 97) @@ ("KP_0" :> 98) @@
    ("KP_DOT" :> 99) @@ ("SCROLLLOCK" :> 71) @@ ("PAUSE" :> 72) @@
    ("INSERT" :> 73) @@ ("HOME" :> 74) @@ ("PAGEUP" :> 75) @@
    ("DELETE" :> 76) @@ ("END" :> 77) @@ ("PAGEDOWN" :> 78) @@
    ("APPLICATION" :> 101) @@ ("MENU" :> 118) @@ ("HENKAN" :> 138) @@
    ("MUHENKAN" :> 139) @@ ("KATAKANAHIRAGANA" :> 140) @@
    ("HANGEUL" :> 144) @@ ("HANJA" :> 145) @@ ("POWER" :> 129) @@
    ("SLEEP" :> 130) @@ ("WAKE" :> 131) @@ ("LEFTCTRL" :> 224) @@
    ("LEFTSHIFT" :> 225) @@ ("LEFTALT" :> 226) @@ ("LEFTMETA" :> 227) @@
    ("RIGHTCTRL" :> 228) @@ ("RIGHTSHIFT" :> 229) @@ ("RIGHTALT" :> 230) @@
    ("RIGHTMETA" :> 231) @@ ("MEDIA_PLAY_PAUSE" :> 232) @@
    ("MEDIA_STOP" :> 233) @@ ("MEDIA_PREVIOUS" :> 234) @@
    ("MEDIA_NEXT" :> 235) @@ ("MEDIA_VOLUME_UP" :> 236) @@
    ("MEDIA_VOLUME_DOWN" :> 237) @@ ("MEDIA_MUTE" :> 238) @@
    ("MEDIA_EJECT" :> 179) @@ ("MEDIA_RECORD" :> 180) @@
    ("MEDIA_REWIND" :> 181) @@ ("MEDIA_FAST_FORWARD" :> 182) @@
    ("CALCULATOR" :> 161) @@ ("MYCOMPUTER" :> 162) @@
    ("WWW_SEARCH" :> 163) @@ ("WWW_HOME" :> 164) @@ ("WWW_BACK" :> 165) @@
    ("WWW_FORWARD" :> 166) @@ ("WWW_STOP" :> 167) @@
    ("WWW_REFRESH" :> 168) @@ ("WWW_FAVORITES" :> 169) @@ ("MAIL" :> 170) @@
    ("COMPOSE" :> 171) @@ ("BROWSER_BACK" :> 172) @@
    ("BROWSER_FORWARD" :> 173) @@ ("BROWSER_REFRESH" :> 174) @@
    ("BROWSER_STOP" :> 175) @@ ("BROWSER_SEARCH" :> 176) @@
    ("BROWSER_FAVORITES" :> 177) @@ ("BROWSER_HOME" :> 178) @@
    ("GAME" :> 183) @@ ("CHAT" :> 184) @@ ("ZOOM" :> 185) @@
    ("PRESENTATION" :> 186) @@ ("SPREADSHEET" :> 187) @@ ("LANGUAGE" :> 188)

MODIFIER_MAP ==
    ("M_LEFTCTRL" :> 1) @@ ("M_LEFTSHIFT" :> 2) @@ ("M_LEFTALT" :> 4) @@
    ("M_LEFTGUI" :> 8) @@ ("M_RIGHTCTRL" :> 16) @@ ("M_RIGHTSHIFT" :> 32) @@
    ("M_RIGHTALT" :> 64) @@ ("M_RIGHTGUI" :> 128)

(***************************************************************************)
(* The disassembler's reverse tables. MODIFIER_NAMES keeps the dict's      *)
(* iteration order, which format_modifiers follows.                        *)
(***************************************************************************)
KEY_NAMES ==
    (4 :> "A") @@ (5 :> "B") @@ (6 :> "C") @@ (7 :> "D") @@ (8 :> "E") @@
    (9 :> "F") @@ (10 :> "G") @@ (11 :> "H") @@ (12 :> "I") @@ (13 :> "J") @@
    (14 :> "K") @@ (15 :> "L") @@ (16 :> "M") @@ (17 :> "N") @@
    (18 :> "O") @@ (19 :> "P") @@ (20 :> "Q") @@ (21 :> "R") @@
    (22 :> "S") @@ (23 :> "T") @@ (24 :> "U") @@ (25 :> "V") @@
    (26 :> "W") @@ (27 :> "X") @@ (28 :> "Y") @@ (29 :> "Z") @@
    (30 :> "1") @@ (31 :> "2") @@ (32 :> "3") @@ (33 :> "4") @@
    (34 :> "5") @@ (35 :> "6") @@ (36 :> "7") @@ (37 :> "8") @@
    (38 :> "9") @@ (39 :> "0") @@ (40 :> "ENTER") @@ (41 :> "ESCAPE") @@
    (42 :> "BACKSPACE") @@ (43 :> "TAB") @@ (44 :> "SPACE") @@
    (45 :> "MINUS") @@ (46 :> "EQUAL") @@ (47 :> "LEFTBRACE") @@
    (48 :> "RIGHTBRACE") @@ (49 :> "BACKSLASH") @@ (50 :> "NONUS_HASH") @@
    (51 :> "SEMICOLON") @@ (52 :> "APOSTROPHE") @@ (53 :> "GRAVE") @@
    (54 :> "COMMA") @@ (55 :> "DOT") @@ (56 :> "SLASH") @@
    (57 :> "CAPSLOCK") @@ (58 :> "F1") @@ (59 :> "F2") @@ (60 :> "F3") @@
    (61 :> "F4") @@ (62 :> "F5") @@ (63 :> "F6") @@ (64 :> "F7") @@
    (65 :> "F8") @@ (66 :> "F9") @@ (67 :> "F10") @@ (68 :> "F11") @@
    (69 :> "F12") @@ (71 :> "SCROLLLOCK") @@ (72 :> "PAUSE") @@
    (73 :> "INSERT") @@ (74 :> "HOME") @@ (75 :> "PAGEUP") @@
    (76 :> "DELETE") @@ (77 :> "END") @@ (78 :> "PAGEDOWN") @@
    (79 :> "RIGHT") @@ (80 :> "LEFT") @@ (81 :> "DOWN") @@ (82 :> "UP") @@
    (83 :> "NUMLOCK") @@ (84 :> "KP_SLASH") @@ (85 :> "KP_ASTERISK") @@
    (86 :> "KP_MINUS") @@ (87 :> "KP_PLUS") @@ (88 :> "KP_ENTER") @@
    (89 :> "KP_1") @@ (90 :> "KP_2") @@ (91 :> "KP_3") @@ (92 :> "KP_4") @@
    (93 :> "KP_5") @@ (94 :> "KP_6") @@ (95 :> "KP_7") @@ (96 :> "KP_8") @@
    (97 :> "KP_9") @@ (98 :> "KP_0") @@ (99 :> "KP_DOT") @@
    (101 :> "APPLICATION") @@ (118 :> "MENU") @@ (129 :> "POWER") @@
    (130 :> "SLEEP") @@ (131 :> "WAKE") @@ (138 :> "HENKAN") @@
    (139 :> "MUHENKAN") @@ (140 :> "KATAKANAHIRAGANA") @@
    (144 :> "HANGEUL") @@ (145 :> "HANJA") @@ (224 :> "LEFTCTRL") @@
    (225 :> "LEFTSHIFT") @@ (226 :> "LEFTALT") @@ (227 :> "LEFTMETA") @@
    (228 :> "RIGHTCTRL") @@ (229 :> "RIGHTSHIFT") @@ (230 :> "RIGHTALT") @@
    (231 :> "RIGHTMETA") @@ (232 :> "MEDIA_PLAY_PAUSE") @@
    (233 :> "MEDIA_STOP") @@ (234 :> "MEDIA_PREVIOUS") @@
    (235 :> "MEDIA_NEXT") @@ (236 :> "MEDIA_VOLUME_UP") @@
    (237 :> "MEDIA_VOLUME_DOWN") @@ (238 :> "MEDIA_MUTE")

MODIFIER_NAMES ==
    << <<1, "M_LEFTCTRL">>,
       <<2, "M_LEFTSHIFT">>,
       <<4, "M_LEFTALT">>,
       <<8, "M_LEFTGUI">>,
       <<16, "M_RIGHTCTRL">>,
       <<32, "M_RIGHTSHIFT">>,
       <<64, "M_RIGHTALT">>,
       <<128, "M_RIGHTGUI">> >>

(***************************************************************************)
(* Bounds of the model.                                                    *)
(***************************************************************************)
MaxStmts == 3
MaxCalls == 2
MaxStrLen == 3

(***************************************************************************)
(* Token (type, value): value is the text of a command, key or modifier,   *)
(* num is int(value) of a NUMBER token, chars the characters of a STRING.  *)
(***************************************************************************)
Tok(t, v, n, cs) == [type |-> t, value |-> v, num |-> n, chars |-> cs]
Cmd(v) == Tok("COMMAND", v, 0, <<>>)
KeyTok(v) == Tok("KEY", v, 0, <<>>)
ModTok(v) == Tok("MODIFIER", v, 0, <<>>)
NumTok(n) == Tok("NUMBER", "", n, <<>>)
StrTok(cs) == Tok("STRING", "", 0, cs)
BraceOpenTok == Tok("BRACE_OPEN", "{", 0, <<>>)
BraceCloseTok == Tok("BRACE_CLOSE", "}", 0, <<>>)
CommentTok == Tok("COMMENT", "#", 0, <<>>)
EofTok == Tok("EOF", "", 0, <<>>)
\* a character of the source that starts no token ("-", "+", "."): the
\* lexer raises "Unexpected character" on it
UnexpectedChar(c) == Tok("UNEXPECTED", c, 0, <<>>)

(***************************************************************************)
(* A character of a string literal with what Python's str.upper(),         *)
(* str.isupper() and str.isdigit() answer for it. Tab, newline, the double *)
(* quote, the backslash, the backtick and non-ASCII characters are written *)
(* U+XXXX.                                                                 *)
(***************************************************************************)
Ch(c, up, isup, isdig) == [ch |-> c, upper |-> up, isupper |-> isup, isdigit |-> isdig]
Ch_H == Ch("H", "H", TRUE, FALSE)
Ch_i == Ch("i", "I", FALSE, FALSE)
Ch_1 == Ch("1", "1", FALSE, TRUE)
Ch_Space == Ch(" ", " ", FALSE, FALSE)
Ch_Bang == Ch("!", "!", FALSE, FALSE)
Ch_Minus == Ch("-", "-", FALSE, FALSE)
Ch_Tab == Ch("U+0009", "U+0009", FALSE, FALSE)
\* U+00E9 (e acute): a letter with no table entry
Ch_EAcute == Ch("U+00E9", "U+00C9", FALSE, FALSE)
\* U+0663 (ARABIC-INDIC DIGIT THREE): isdigit() is True, not a KEY_MAP name
Ch_ArabicThree == Ch("U+0663", "U+0663", FALSE, TRUE)

whitespace_map ==
    ("U+0009" :> "TAB") @@ ("U+000A" :> "ENTER")

symbol_map ==
    ("!" :> <<"1", "M_LEFTSHIFT">>) @@ ("@" :> <<"2", "M_LEFTSHIFT">>) @@
    ("#" :> <<"3", "M_LEFTSHIFT">>) @@ ("$" :> <<"4", "M_LEFTSHIFT">>) @@
    ("%" :> <<"5", "M_LEFTSHIFT">>) @@ ("^" :> <<"6", "M_LEFTSHIFT">>) @@
    ("&" :> <<"7", "M_LEFTSHIFT">>) @@ ("*" :> <<"8", "M_LEFTSHIFT">>) @@
    ("(" :> <<"9", "M_LEFTSHIFT">>) @@ (")" :> <<"0", "M_LEFTSHIFT">>) @@
    ("_" :> <<"MINUS", "M_LEFTSHIFT">>) @@ ("+" :> <<"EQUAL", "M_LEFTSHIFT">>) @@
    ("{" :> <<"LEFTBRACE", "M_LEFTSHIFT">>) @@
    ("}" :> <<"RIGHTBRACE", "M_LEFTSHIFT">>) @@
    ("|" :> <<"BACKSLASH", "M_LEFTSHIFT">>) @@
    (":" :> <<"SEMICOLON", "M_LEFTSHIFT">>) @@
    ("<" :> <<"COMMA", "M_LEFTSHIFT">>) @@ (">" :> <<"DOT", "M_LEFTSHIFT">>) @@
    ("?" :> <<"SLASH", "M_LEFTSHIFT">>) @@ ("~" :> <<"GRAVE", "M_LEFTSHIFT">>) @@
    ("U+0022" :> <<"APOSTROPHE", "M_LEFTSHIFT">>) @@
    ("-" :> <<"MINUS", "">>) @@ ("=" :> <<"EQUAL", "">>) @@
    ("[" :> <<"LEFTBRACE", "">>) @@ ("]" :> <<"RIGHTBRACE", "">>) @@
    ("U+005C" :> <<"BACKSLASH", "">>) @@ (";" :> <<"SEMICOLON", "">>) @@
    ("'" :> <<"APOSTROPHE", "">>) @@ ("U+0060" :> <<"GRAVE", "">>) @@
    ("," :> <<"COMMA", "">>) @@ ("." :> <<"DOT", "">>) @@
    ("/" :> <<"SLASH", "">>)

(***************************************************************************)
(* a | b on bytes (modifiers |= ...).                                      *)
(***************************************************************************)
RECURSIVE BitOr(_, _)
BitOr(a, b) ==
    IF a = 0 THEN b
    ELSE IF b = 0 THEN a
    ELSE (IF a % 2 = 1 \/ b % 2 = 1 THEN 1 ELSE 0) + 2 * BitOr(a \div 2, b \div 2)

\* value & bit # 0, for a single-bit mask
BitSet(value, bit) == (value \div bit) % 2 = 1

(***************************************************************************)
(* Compiler._uint16_to_bytes / _uint32_to_bytes: little-endian.            *)
(***************************************************************************)
Uint16ToBytes(value) == << value % 256, (value \div 256) % 256 >>

Uint32ToBytes(value) ==
    << value % 256, (value \div 256) % 256, (value \div 65536) % 256,
       (value \div 16777216) % 256 >>

(***************************************************************************)
(* One instruction as the emitter appends it: op is the opcode, mod and    *)
(* keys the operands of KEYDN/KEYUP, idx a counter index, val the u16 of   *)
(* WAIT / SET_COUNTER or the u32 target of JNZ.                            *)
(***************************************************************************)
Instr(op, mod, keys, idx, val) ==
    [op |-> op, mod |-> mod, keys |-> keys, idx |-> idx, val |-> val]
KeyInstr(op, mod, keys) == Instr(op, mod, keys, 0, 0)
WaitInstr(ms) == Instr(OP_WAIT, 0, <<>>, 0, ms)
KeyupAllInstr == Instr(OP_KEYUP_ALL, 0, <<>>, 0, 0)
SetCounterInstr(idx, count) == Instr(OP_SET_COUNTER, 0, <<>>, idx, count)
DecInstr(idx) == Instr(OP_DEC, 0, <<>>, idx, 0)
JnzInstr(target) == Instr(OP_JNZ, 0, <<>>, 0, target)

\* the bytes the code appends to self.bytecode for one instruction
Encode(i) ==
    IF i.op \in {OP_KEYDN, OP_KEYUP} THEN <<i.op, i.mod, Len(i.keys)>> \o i.keys
    ELSE IF i.op = OP_KEYUP_ALL THEN <<i.op>>
    ELSE IF i.op = OP_WAIT THEN <<i.op>> \o Uint16ToBytes(i.val)
    ELSE IF i.op = OP_SET_COUNTER THEN <<i.op, i.idx>> \o Uint16ToBytes(i.val)
    ELSE IF i.op = OP_DEC THEN <<i.op, i.idx>>
    ELSE <<i.op>> \o Uint32ToBytes(i.val)

(***************************************************************************)
(* State.                                                                  *)
(*   Compiler object (Compiler.__init__): bytecode, current_press_time,    *)
(*     current_interkey_time, counter_index, loop_stack.                   *)
(*   One compile call: source (the argument), tokens (lexer.tokens, what   *)
(*     is left of it), frames (the active _compile_repeat calls with their *)
(*     locals counter_index and loop_start), pc, exc (the exception that   *)
(*     ended the call, "" if none), result (the bytes returned).           *)
(*   History: emitted (the instructions the emitter appended during this   *)
(*     call, each with the offset it was appended at), calls (number of    *)
(*     compile calls on this object), history (outcome of each call).      *)
(*   Lexer object (Lexer.__init__ and _tokenize): lex, with the fields      *)
(*     source (a sequence of characters), position, line, column, tokens.  *)
(*   disassemble(bytecode): dis_in (its argument), dis_pc, instructions,   *)
(*     dis_state.                                                          *)
(***************************************************************************)
VARIABLES bytecode, current_press_time, current_interkey_time, counter_index,
          loop_stack, source, tokens, frames, pc, exc, result, emitted, calls,
          history, lex, dis_in, dis_pc, instructions, dis_state

compilerVars ==
    << bytecode, current_press_time, current_interkey_time, counter_index,
       loop_stack, source, tokens, frames, pc, exc, result, emitted, calls,
       history, lex >>

disVars == << dis_in, dis_pc, instructions, dis_state >>

\* Compiler.max_counters
max_counters == 256

\* default current_press_time / current_interkey_time
DEFAULT_TIME == 30

\* largest value of a NUMBER operand
UINT16_MAX == 65535

(***************************************************************************)
(* The compiler's state as one record, so that each _compile_* method is   *)
(* an operator from the state before to the state after.                   *)
(***************************************************************************)
M ==
    [ bytecode |-> bytecode,
      current_press_time |-> current_press_time,
      current_interkey_time |-> current_interkey_time,
      counter_index |-> counter_index,
      loop_stack |-> loop_stack,
      tokens |-> tokens,
      frames |-> frames,
      emitted |-> emitted,
      exc |-> "" ]

\* lexer.tokens.pop(0)
Pop(m) == [m EXCEPT !.tokens = Tail(@)]

\* raise: the exception unwinds every _compile_repeat call
Raise(m, e) == [m EXCEPT !.exc = e, !.frames = <<>>]

\* self.bytecode.append(...) / extend(...) for one instruction
Emit(m, i) ==
    [m EXCEPT !.bytecode = @ \o Encode(i),
              !.emitted = Append(@, [at |-> Len(m.bytecode), ins |-> i])]

(***************************************************************************)
(* Lexer(source).tokens: the tokens of the source, then EOF.               *)
(***************************************************************************)
Lexer(src) == src \o <<EofTok>>

\* Lexer._tokenize raises CompileError("Unexpected character: ...")
LexerRaises(src) == \E i \in 1..Len(src) : src[i].type = "UNEXPECTED"

(***************************************************************************)
(* The modifier/key loop of _compile_keydn, _compile_keyup and             *)
(* _compile_press (the same loop three times in the code).                 *)
(***************************************************************************)
\* faulty variant of ParseKeyList: the key limit is tested after the append
RECURSIVE ParseKeyListSevenKeys(_, _, _)
ParseKeyListSevenKeys(toks, modifiers, keys) ==
    LET token == Head(toks)
        stop(e) == [tokens |-> toks, modifiers |-> modifiers, keys |-> keys, exc |-> e]
    IN  IF toks = <<>> \/ token.type = "EOF" THEN stop("")
        ELSE IF token.type = "MODIFIER" THEN
            IF token.value \in DOMAIN MODIFIER_MAP
            THEN ParseKeyListSevenKeys(Tail(toks),
                                       BitOr(modifiers, MODIFIER_MAP[token.value]), keys)
            ELSE stop("CompileError")
        ELSE IF token.type = "KEY" THEN
            IF token.value \in DOMAIN KEY_MAP
            THEN IF Len(keys) > 6
                 THEN stop("CompileError")
                 ELSE ParseKeyListSevenKeys(Tail(toks), modifiers,
                                            Append(keys, KEY_MAP[token.value]))
            ELSE stop("CompileError")
        ELSE stop("")

RECURSIVE ParseKeyList(_, _, _)
ParseKeyList(toks, modifiers, keys) ==
    LET token == Head(toks)
        stop(e) == [tokens |-> toks, modifiers |-> modifiers, keys |-> keys, exc |-> e]
    IN  IF toks = <<>> \/ token.type = "EOF" THEN stop("")
        ELSE IF token.type = "MODIFIER" THEN
            IF token.value \in DOMAIN MODIFIER_MAP
            THEN ParseKeyList(Tail(toks), BitOr(modifiers, MODIFIER_MAP[token.value]), keys)
            ELSE stop("CompileError")
        ELSE IF token.type = "KEY" THEN
            IF token.value \in DOMAIN KEY_MAP
            THEN IF Len(keys) >= 6
                 THEN stop("CompileError")
                 ELSE ParseKeyList(Tail(toks), modifiers, Append(keys, KEY_MAP[token.value]))
            ELSE stop("CompileError")
        ELSE stop("")

\* faulty variant of NumberOk: the upper limit is off by one
NumberOkOffByOne(m) ==
    /\ Head(m.tokens).type = "NUMBER"
    /\ ~(Head(m.tokens).num < 0 \/ Head(m.tokens).num > UINT16_MAX + 1)

\* the NUMBER operand of press_time / interkey_time / pause / repeat
NumberOk(m) ==
    /\ Head(m.tokens).type = "NUMBER"
    /\ ~(Head(m.tokens).num < 0 \/ Head(m.tokens).num > UINT16_MAX)

\* faulty variant of CompilePressTime: the value also becomes the inter-key time
CompilePressTimeSetsInterkey(m) ==
    LET m1 == Pop(m)
    IN  IF ~NumberOk(m1) THEN Raise(m1, "CompileError")
        ELSE Pop([m1 EXCEPT !.current_interkey_time = Head(m1.tokens).num])

CompilePressTime(m) ==
    LET m1 == Pop(m)
    IN  IF ~NumberOk(m1) THEN Raise(m1, "CompileError")
        ELSE Pop([m1 EXCEPT !.current_press_time = Head(m1.tokens).num])

CompileInterkeyTime(m) ==
    LET m1 == Pop(m)
    IN  IF ~NumberOk(m1) THEN Raise(m1, "CompileError")
        ELSE Pop([m1 EXCEPT !.current_interkey_time = Head(m1.tokens).num])

CompilePause(m) ==
    LET m1 == Pop(m)
    IN  IF ~NumberOk(m1) THEN Raise(m1, "CompileError")
        ELSE Emit(Pop(m1), WaitInstr(Head(m1.tokens).num))

CompileKeydn(m) ==
    LET m1 == Pop(m)
        p == ParseKeyList(m1.tokens, 0, <<>>)
        m2 == [m1 EXCEPT !.tokens = p.tokens]
    IN  IF p.exc # "" THEN Raise(m2, p.exc)
        ELSE Emit(m2, KeyInstr(OP_KEYDN, p.modifiers, p.keys))

CompileKeyup(m) ==
    LET m1 == Pop(m)
        p == ParseKeyList(m1.tokens, 0, <<>>)
        m2 == [m1 EXCEPT !.tokens = p.tokens]
    IN  IF m1.tokens = <<>> \/ Head(m1.tokens).type \in {"EOF", "COMMENT"}
        THEN Emit(m1, KeyupAllInstr)
        ELSE IF p.exc # "" THEN Raise(m2, p.exc)
        ELSE Emit(m2, KeyInstr(OP_KEYUP, p.modifiers, p.keys))

\* faulty variant of CompilePress: the WAIT interkey_time after KEYUP is left out
CompilePressNoTrailingWait(m) ==
    LET m1 == Pop(m)
        p == ParseKeyList(m1.tokens, 0, <<>>)
        m2 == [m1 EXCEPT !.tokens = p.tokens]
    IN  IF p.exc # "" THEN Raise(m2, p.exc)
        ELSE IF p.keys = <<>> THEN Raise(m2, "CompileError")
        ELSE Emit(Emit(Emit(m2,
                 KeyInstr(OP_KEYDN, p.modifiers, p.keys)),
                 WaitInstr(m2.current_press_time)),
                 KeyInstr(OP_KEYUP, p.modifiers, p.keys))

CompilePress(m) ==
    LET m1 == Pop(m)
        p == ParseKeyList(m1.tokens, 0, <<>>)
        m2 == [m1 EXCEPT !.tokens = p.tokens]
    IN  IF p.exc # "" THEN Raise(m2, p.exc)
        ELSE IF p.keys = <<>> THEN Raise(m2, "CompileError")
        ELSE Emit(Emit(Emit(Emit(m2,
                 KeyInstr(OP_KEYDN, p.modifiers, p.keys)),
                 WaitInstr(m2.current_press_time)),
                 KeyInstr(OP_KEYUP, p.modifiers, p.keys)),
                 WaitInstr(m2.current_interkey_time))

(***************************************************************************)
(* Compiler._char_to_keycode: (key_code, modifiers), or the KeyError of    *)
(* Lexer.KEY_MAP[char] for a digit character that is no key name.          *)
(***************************************************************************)
CharToKeycode(char) ==
    LET ret(k, mo) == [key_code |-> k, modifiers |-> mo, exc |-> ""]
    IN  IF char.upper \in DOMAIN KEY_MAP THEN
            IF char.isupper
            THEN ret(KEY_MAP[char.upper], MODIFIER_MAP["M_LEFTSHIFT"])
            ELSE ret(KEY_MAP[char.upper], 0)
        ELSE IF char.isdigit THEN
            IF char.ch \in DOMAIN KEY_MAP
            THEN ret(KEY_MAP[char.ch], 0)
            ELSE [key_code |-> 0, modifiers |-> 0, exc |-> "KeyError"]
        ELSE IF char.ch \in DOMAIN whitespace_map THEN
            ret(KEY_MAP[whitespace_map[char.ch]], 0)
        ELSE IF char.ch \in DOMAIN symbol_map THEN
            ret(KEY_MAP[symbol_map[char.ch][1]],
                IF symbol_map[char.ch][2] # ""
                THEN MODIFIER_MAP[symbol_map[char.ch][2]] ELSE 0)
        ELSE ret(KEY_MAP["SPACE"], 0)

\* the loop `for i, char in enumerate(string)` of _compile_type, from the
\* i-th character on (i counts from 1 here)
RECURSIVE TypeChars(_, _, _)
TypeChars(m, string, i) ==
    IF i > Len(string) THEN m
    ELSE LET char == string[i]
             kc == IF char.ch = " "
                   THEN [key_code |-> KEY_MAP["SPACE"], modifiers |-> 0, exc |-> ""]
                   ELSE CharToKeycode(char)
             m1 == Emit(Emit(Emit(m,
                       KeyInstr(OP_KEYDN, kc.modifiers, <<kc.key_code>>)),
                       WaitInstr(m.current_press_time)),
                       KeyInstr(OP_KEYUP, kc.modifiers, <<kc.key_code>>))
             m2 == IF i < Len(string)
                   THEN Emit(m1, WaitInstr(m.current_interkey_time))
                   ELSE m1
         IN  IF kc.exc # "" THEN Raise(m, kc.exc)
             ELSE TypeChars(m2, string, i + 1)

CompileType(m) ==
    LET m1 == Pop(m)
    IN  IF m1.tokens = <<>> \/ Head(m1.tokens).type # "STRING"
        THEN Raise(m1, "CompileError")
        ELSE TypeChars(Pop(m1), Head(m1.tokens).chars, 1)

\* faulty variant of CompileRepeat: loop_start is taken before SET_COUNTER is emitted
CompileRepeatStartBeforeSetCounter(m) ==
    LET m1 == Pop(m)
        count == Head(m1.tokens).num
        m2 == Pop(m1)
        m3 == Pop(m2)
        idx == m3.counter_index
        loop_start == Len(m3.bytecode)
        m4 == Emit([m3 EXCEPT !.counter_index = @ + 1], SetCounterInstr(idx, count))
    IN  IF ~NumberOk(m1) THEN Raise(m1, "CompileError")
        ELSE IF m2.tokens = <<>> \/ Head(m2.tokens).type # "BRACE_OPEN"
        THEN Raise(m2, "CompileError")
        ELSE IF Len(m3.loop_stack) >= max_counters THEN Raise(m3, "CompileError")
        ELSE [m4 EXCEPT !.loop_stack = Append(@, <<idx, loop_start, 0>>),
                        !.frames = Append(@, [counter_index |-> idx,
                                              loop_start |-> loop_start])]

\* faulty variant of CompileRepeat: the nesting limit is tested with > instead of >=
CompileRepeatLimitOffByOne(m) ==
    LET m1 == Pop(m)
        count == Head(m1.tokens).num
        m2 == Pop(m1)
        m3 == Pop(m2)
        idx == m3.counter_index
        m4 == Emit([m3 EXCEPT !.counter_index = @ + 1], SetCounterInstr(idx, count))
        loop_start == Len(m4.bytecode)
    IN  IF ~NumberOk(m1) THEN Raise(m1, "CompileError")
        ELSE IF m2.tokens = <<>> \/ Head(m2.tokens).type # "BRACE_OPEN"
        THEN Raise(m2, "CompileError")
        ELSE IF Len(m3.loop_stack) > max_counters THEN Raise(m3, "CompileError")
        ELSE [m4 EXCEPT !.loop_stack = Append(@, <<idx, loop_start, 0>>),
                        !.frames = Append(@, [counter_index |-> idx,
                                              loop_start |-> loop_start])]

(***************************************************************************)
(* _compile_repeat up to its call of _compile_statements (the loop body):  *)
(* operand checks, nesting limit, counter allocation, SET_COUNTER, push.   *)
(***************************************************************************)
CompileRepeat(m) ==
    LET m1 == Pop(m)
        count == Head(m1.tokens).num
        m2 == Pop(m1)
        m3 == Pop(m2)
        idx == m3.counter_index
        m4 == Emit([m3 EXCEPT !.counter_index = @ + 1], SetCounterInstr(idx, count))
        loop_start == Len(m4.bytecode)
    IN  IF ~NumberOk(m1) THEN Raise(m1, "CompileError")
        ELSE IF m2.tokens = <<>> \/ Head(m2.tokens).type # "BRACE_OPEN"
        THEN Raise(m2, "CompileError")
        ELSE IF Len(m3.loop_stack) >= max_counters THEN Raise(m3, "CompileError")
        ELSE [m4 EXCEPT !.loop_stack = Append(@, <<idx, loop_start, 0>>),
                        !.frames = Append(@, [counter_index |-> idx,
                                              loop_start |-> loop_start])]

\* faulty variant of CompileRepeatEnd: the counter index is given back when the loop closes
CompileRepeatEndReleasesCounter(m) ==
    LET f == m.frames[Len(m.frames)]
        m1 == Pop(m)
        m2 == Emit(Emit(m1, DecInstr(f.counter_index)), JnzInstr(f.loop_start))
    IN  IF m.tokens = <<>> \/ Head(m.tokens).type # "BRACE_CLOSE"
        THEN Raise(m, "CompileError")
        ELSE [m2 EXCEPT !.loop_stack = SubSeq(@, 1, Len(@) - 1),
                        !.frames = SubSeq(@, 1, Len(@) - 1),
                        !.counter_index = @ - 1]

(***************************************************************************)
(* _compile_repeat after _compile_statements returned: the closing brace,  *)
(* DEC, JNZ, pop. counter_index and loop_start are the call's locals.      *)
(***************************************************************************)
CompileRepeatEnd(m) ==
    LET f == m.frames[Len(m.frames)]
        m1 == Pop(m)
        m2 == Emit(Emit(m1, DecInstr(f.counter_index)), JnzInstr(f.loop_start))
    IN  IF m.tokens = <<>> \/ Head(m.tokens).type # "BRACE_CLOSE"
        THEN Raise(m, "CompileError")
        ELSE [m2 EXCEPT !.loop_stack = SubSeq(@, 1, Len(@) - 1),
                        !.frames = SubSeq(@, 1, Len(@) - 1)]

\* bytes(self.bytecode): ValueError unless every element is in range(0, 256)
BytesOk(b) == \A i \in 1..Len(b) : b[i] \in 0..255

\* compile's `return bytes(self.bytecode)`
CompileBytes(m) ==
    IF BytesOk(m.bytecode)
    THEN [exc |-> "", result |-> m.bytecode]
    ELSE [exc |-> "ValueError", result |-> <<>>]

(***************************************************************************)
(* The disassembler.                                                       *)
(***************************************************************************)
\* faulty variant of BytesToUint16: most significant byte first
BytesToUint16BigEndian(data, offset) == data[offset + 1] * 256 + data[offset + 2]

\* data[offset] | (data[offset + 1] << 8); offset counts from 0
BytesToUint16(data, offset) == data[offset + 1] + data[offset + 2] * 256

BytesToUint32(data, offset) ==
    data[offset + 1] + data[offset + 2] * 256 + data[offset + 3] * 65536
        + data[offset + 4] * 16777216

\* format_modifiers: the names of the set bits, in MODIFIER_NAMES order
FormatModifiers(modifier_byte) ==
    IF modifier_byte = 0 THEN <<>>
    ELSE SelectSeq([i \in 1..Len(MODIFIER_NAMES) |->
                       IF BitSet(modifier_byte, MODIFIER_NAMES[i][1])
                       THEN MODIFIER_NAMES[i][2] ELSE ""],
                   LAMBDA n : n # "")

\* format_keys: the key's name, or 0x{key:02X} (kept as the number) without one
FormatKeys(keys) ==
    [i \in 1..Len(keys) |->
        IF keys[i] \in DOMAIN KEY_NAMES
        THEN [name |-> KEY_NAMES[keys[i]], hex |-> -1]
        ELSE [name |-> "", hex |-> keys[i]]]

(***************************************************************************)
(* A line of the listing "0x{offset:04X}: MNEMONIC operands": its offset,  *)
(* mnemonic, modifier names, keys and numeric operands; incomplete is the  *)
(* "(incomplete)" marker.                                                  *)
(***************************************************************************)
Line(offset, mnemonic, mods, keys, operands, incomplete) ==
    [offset |-> offset, mnemonic |-> mnemonic, mods |-> mods, keys |-> keys,
     operands |-> operands, incomplete |-> incomplete]

Incomplete(offset, mnemonic) == Line(offset, mnemonic, <<>>, <<>>, <<>>, TRUE)

\* the byte sequences disassemble is run on: up to MaxBytes bytes out of the
\* seven opcodes, 0 and 1, alone or behind one complete instruction
MaxBytes == 3
Bytes == {OP_KEYDN, OP_KEYUP, OP_KEYUP_ALL, OP_WAIT, OP_SET_COUNTER, OP_DEC, OP_JNZ, 0, 1}
Leading == {<<>>, <<OP_KEYDN, 1, 1, 1>>, <<OP_SET_COUNTER, 0, 1, 0>>, <<OP_JNZ, 0, 1, 0, 0>>}
ByteSources == { p \o s : p \in Leading, s \in UNION { [1..n -> Bytes] : n \in 0..MaxBytes } }

\* faulty variant of DecodeKey: a key list cut short is reported at the
\* offset of its modifier byte
DecodeKeyOffsetOfModifier(data, pc1, mnemonic) ==
    LET modifier == data[pc1 + 1]
        count == data[pc1 + 2]
        pc2 == pc1 + 2
        keys == [i \in 1..count |-> data[pc2 + i]]
        pc3 == pc2 + count
    IN  IF pc1 + 2 > Len(data)
        THEN [line |-> Incomplete(pc1 - 1, mnemonic), pc |-> pc1, brk |-> TRUE]
        ELSE IF pc2 + count > Len(data)
        THEN [line |-> Incomplete(pc2 - 2, mnemonic), pc |-> pc2, brk |-> TRUE]
        ELSE [line |-> Line(pc3 - count - 3, mnemonic, FormatModifiers(modifier),
                            FormatKeys(keys), <<>>, FALSE),
              pc |-> pc3, brk |-> FALSE]

\* one iteration of the while loop of disassemble: the line appended, the
\* new pc, and whether the loop breaks
DecodeKey(data, pc1, mnemonic) ==
    LET modifier == data[pc1 + 1]
        count == data[pc1 + 2]
        pc2 == pc1 + 2
        keys == [i \in 1..count |-> data[pc2 + i]]
        pc3 == pc2 + count
    IN  IF pc1 + 2 > Len(data)
        THEN [line |-> Incomplete(pc1 - 1, mnemonic), pc |-> pc1, brk |-> TRUE]
        ELSE IF pc2 + count > Len(data)
        THEN [line |-> Incomplete(pc2 - 3, mnemonic), pc |-> pc2, brk |-> TRUE]
        ELSE [line |-> Line(pc3 - count - 3, mnemonic, FormatModifiers(modifier),
                            FormatKeys(keys), <<>>, FALSE),
              pc |-> pc3, brk |-> FALSE]

\* faulty variant of DecodeWait: the operand is read most significant byte first
DecodeWaitBigEndian(data, pc1) ==
    IF pc1 + 2 > Len(data)
    THEN [line |-> Incomplete(pc1 - 1, "WAIT"), pc |-> pc1, brk |-> TRUE]
    ELSE [line |-> Line(pc1 + 2 - 3, "WAIT", <<>>, <<>>,
                        <<BytesToUint16BigEndian(data, pc1)>>, FALSE),
          pc |-> pc1 + 2, brk |-> FALSE]

DecodeWait(data, pc1) ==
    IF pc1 + 2 > Len(data)
    THEN [line |-> Incomplete(pc1 - 1, "WAIT"), pc |-> pc1, brk |-> TRUE]
    ELSE [line |-> Line(pc1 + 2 - 3, "WAIT", <<>>, <<>>,
                        <<BytesToUint16(data, pc1)>>, FALSE),
          pc |-> pc1 + 2, brk |-> FALSE]

DecodeSetCounter(data, pc1) ==
    IF pc1 + 3 > Len(data)
    THEN [line |-> Incomplete(pc1 - 1, "SET_COUNTER"), pc |-> pc1, brk |-> TRUE]
    ELSE [line |-> Line(pc1 + 3 - 4, "SET_COUNTER", <<>>, <<>>,
                        <<data[pc1 + 1], BytesToUint16(data, pc1 + 1)>>, FALSE),
          pc |-> pc1 + 3, brk |-> FALSE]

DecodeDec(data, pc1) ==
    IF pc1 >= Len(data)
    THEN [line |-> Incomplete(pc1 - 1, "DEC"), pc |-> pc1, brk |-> TRUE]
    ELSE [line |-> Line(pc1 + 1 - 2, "DEC", <<>>, <<>>, <<data[pc1 + 1]>>, FALSE),
          pc |-> pc1 + 1, brk |-> FALSE]

DecodeJnz(data, pc1) ==
    IF pc1 + 4 > Len(data)
    THEN [line |-> Incomplete(pc1 - 1, "JNZ"), pc |-> pc1, brk |-> TRUE]
    ELSE [line |-> Line(pc1 + 4 - 5, "JNZ", <<>>, <<>>,
                        <<BytesToUint32(data, pc1)>>, FALSE),
          pc |-> pc1 + 4, brk |-> FALSE]

\* faulty variant of Decode: the loop ends at an unknown opcode
DecodeStopsAtUnknown(data, pc0) ==
    LET opcode == data[pc0 + 1]
        pc1 == pc0 + 1
    IN  IF opcode = OP_KEYDN THEN DecodeKey(data, pc1, "KEYDN")
        ELSE IF opcode = OP_KEYUP THEN DecodeKey(data, pc1, "KEYUP")
        ELSE IF opcode = OP_KEYUP_ALL
        THEN [line |-> Line(pc1 - 1, "KEYUP_ALL", <<>>, <<>>, <<>>, FALSE),
              pc |-> pc1, brk |-> FALSE]
        ELSE IF opcode = OP_WAIT THEN DecodeWait(data, pc1)
        ELSE IF opcode = OP_SET_COUNTER THEN DecodeSetCounter(data, pc1)
        ELSE IF opcode = OP_DEC THEN DecodeDec(data, pc1)
        ELSE IF opcode = OP_JNZ THEN DecodeJnz(data, pc1)
        ELSE [line |-> Line(pc1 - 1, "UNKNOWN_OPCODE", <<>>, <<>>, <<opcode>>, FALSE),
              pc |-> pc1, brk |-> TRUE]

Decode(data, pc0) ==
    LET opcode == data[pc0 + 1]
        pc1 == pc0 + 1
    IN  IF opcode = OP_KEYDN THEN DecodeKey(data, pc1, "KEYDN")
        ELSE IF opcode = OP_KEYUP THEN DecodeKey(data, pc1, "KEYUP")
        ELSE IF opcode = OP_KEYUP_ALL
        THEN [line |-> Line(pc1 - 1, "KEYUP_ALL", <<>>, <<>>, <<>>, FALSE),
              pc |-> pc1, brk |-> FALSE]
        ELSE IF opcode = OP_WAIT THEN DecodeWait(data, pc1)
        ELSE IF opcode = OP_SET_COUNTER THEN DecodeSetCounter(data, pc1)
        ELSE IF opcode = OP_DEC THEN DecodeDec(data, pc1)
        ELSE IF opcode = OP_JNZ THEN DecodeJnz(data, pc1)
        ELSE [line |-> Line(pc1 - 1, "UNKNOWN_OPCODE", <<>>, <<>>, <<opcode>>, FALSE),
              pc |-> pc1, brk |-> FALSE]

(***************************************************************************)
(* ODKeyConfigUsb state: device (self.device: "none" or "open"), and one   *)
(* operation call: usb_op (the call and its arguments), usb_pc (where the  *)
(* call stands), usb_local (its local variables), wire (for every          *)
(* send_command of the call, in order: its arguments and the hid_packet it *)
(* handed to device.write), usb_ret (what the call returned or raised),     *)
(* usb_sc (where the current send_command stands: before device.write or   *)
(* in its read loop), acks (how every send_command of the call ended, in   *)
(* order), reads (the response bytes every send_command of a              *)
(* download_program or nvs_get call, or a direct send_command call, gave   *)
(* back, in order).  mock is the device on the other end when it is a test double   *)
(* that stores what it is sent, and last_ok the last upload_program and    *)
(* nvs_set calls that returned True against it.                            *)
(***************************************************************************)
VARIABLES device, usb_op, usb_pc, usb_local, wire, usb_ret, usb_sc, acks, reads, mock,
          last_ok

usbVars ==
    << device, usb_op, usb_pc, usb_local, wire, usb_ret, usb_sc, acks, reads, mock, last_ok >>

(***************************************************************************)
(* ODKeyConfigHttp, where every operation is one request on the session:   *)
(* http_op is the call and its arguments, http_pc whether it has ended,    *)
(* http_log the requests the call sent with the status each got, http_ret  *)
(* what the call returned (msg: the line it printed).  cli is the command  *)
(* of the command-line interface that is running, if one is.               *)
(***************************************************************************)
VARIABLES cli, http_op, http_pc, http_ret, http_log

cliVars == << cli, http_op, http_pc, http_ret, http_log >>

vars == << compilerVars, disVars, usbVars, cliVars >>

(***************************************************************************)
(* Sources the compiler is run on: programs of up to MaxStmts fragments    *)
(* (statements, and the pieces malformed programs are made of), press      *)
(* statements with 0..7 keys, type statements with strings of up to        *)
(* MaxStrLen characters, and max_counters / max_counters + 1 repeat blocks, *)
(* nested and in sequence.                                                 *)
(***************************************************************************)
Fragments ==
    { <<Cmd("press"), KeyTok("A")>>,
      <<Cmd("press"), ModTok("M_LEFTSHIFT"), KeyTok("A"), ModTok("M_LEFTCTRL"), KeyTok("B")>>,
      <<Cmd("press_time"), NumTok(100)>>,
      <<Cmd("press_time"), NumTok(5)>>,
      <<Cmd("interkey_time"), NumTok(300)>>,
      <<Cmd("interkey_time"), NumTok(65536)>>,
      <<Cmd("keydn"), ModTok("M_LEFTSHIFT"), KeyTok("A")>>,
      <<Cmd("keyup")>>,
      <<Cmd("type"), StrTok(<<Ch_H, Ch_i>>)>>,
      <<Cmd("pause"), NumTok(50)>>,
      <<Cmd("repeat"), NumTok(3), BraceOpenTok>>,
      <<Cmd("repeat"), NumTok(2), BraceOpenTok, Cmd("pause"), NumTok(50), BraceCloseTok>>,
      <<BraceCloseTok>>,
      <<CommentTok>>,
      <<KeyTok("UNKNOWN_KEY")>> }

RECURSIVE ProgramsOf(_)
ProgramsOf(n) ==
    IF n = 0 THEN { <<>> }
    ELSE LET P == ProgramsOf(n - 1)
         IN  P \cup { p \o f : p \in P, f \in Fragments }

KeyNamesUsed == <<"A", "B", "ENTER", "F12", "KP_0", "MEDIA_EJECT", "Z">>

ModifierLists ==
    { <<>>, <<ModTok("M_LEFTSHIFT")>>,
      <<ModTok("M_LEFTCTRL"), ModTok("M_RIGHTGUI"), ModTok("M_LEFTCTRL")>>,
      <<ModTok("M_BOGUS")>> }

PressSources ==
    { <<Cmd(c)>> \o ml \o [i \in 1..k |-> KeyTok(KeyNamesUsed[i])] \o tl :
        c \in {"press", "keydn", "keyup"}, ml \in ModifierLists, k \in 0..7,
        tl \in { <<>>, <<ModTok("M_LEFTALT")>> } }

StringChars == { Ch_H, Ch_i, Ch_1, Ch_Space, Ch_Bang, Ch_Minus, Ch_Tab, Ch_EAcute,
                Ch_ArabicThree }

Strings == UNION { [1..n -> StringChars] : n \in 0..MaxStrLen }

TypeSources ==
    { <<Cmd("interkey_time"), NumTok(7), Cmd("type"), StrTok(s)>> : s \in Strings }

NestedRepeats(k) ==
    [i \in 1..(4 * k + 2) |->
        IF i <= 3 * k
        THEN (IF i % 3 = 1 THEN Cmd("repeat")
              ELSE IF i % 3 = 2 THEN NumTok(1) ELSE BraceOpenTok)
        ELSE IF i = 3 * k + 1 THEN Cmd("press")
        ELSE IF i = 3 * k + 2 THEN KeyTok("A")
        ELSE BraceCloseTok]

SequentialRepeats(k) ==
    [i \in 1..(4 * k) |->
        IF i % 4 = 1 THEN Cmd("repeat")
        ELSE IF i % 4 = 2 THEN NumTok(1)
        ELSE IF i % 4 = 3 THEN BraceOpenTok ELSE BraceCloseTok]

DeepSources ==
    { NestedRepeats(max_counters), NestedRepeats(max_counters + 1),
      SequentialRepeats(max_counters), SequentialRepeats(max_counters + 1) }

\* `press A`, then a statement with a number operand n (written -n when
\* neg), then what uses the number
NumberCommands == {"press_time", "interkey_time", "pause", "repeat"}

Numbers == {0, 1, 255, 256, 50000, UINT16_MAX, UINT16_MAX + 1, 70000}

NumberStatement(c, neg, n) ==
    <<Cmd("press"), KeyTok("A"), Cmd(c)>>
    \o (IF neg THEN <<UnexpectedChar("-")>> ELSE <<>>)
    \o <<NumTok(n)>>
    \o (IF c = "repeat" THEN <<BraceOpenTok, Cmd("press"), KeyTok("A"), BraceCloseTok>>
        ELSE <<Cmd("press"), KeyTok("A")>>)

NumberSources ==
    { NumberStatement(c, FALSE, n) : c \in NumberCommands, n \in Numbers }
    \cup { NumberStatement(c, TRUE, 1) : c \in NumberCommands }

Sources ==
    ProgramsOf(MaxStmts) \cup PressSources \cup TypeSources \cup DeepSources
    \cup NumberSources

\* sources of the calls made on one Compiler object, one after another
ReuseSources ==
    { <<Cmd("press"), KeyTok("A")>>,
      <<Cmd("press_time"), NumTok(100)>>,
      <<Cmd("interkey_time"), NumTok(300)>>,
      <<Cmd("pause"), NumTok(50)>>,
      <<Cmd("keydn"), KeyTok("A"), CommentTok>>,
      <<Cmd("keyup")>>,
      <<Cmd("type"), StrTok(<<Ch_H, Ch_i>>)>>,
      <<Cmd("type"), StrTok(<<Ch_i, Ch_ArabicThree>>)>>,
      <<Cmd("repeat"), NumTok(3), BraceOpenTok, Cmd("press"), KeyTok("A"), BraceCloseTok>>,
      <<Cmd("repeat"), NumTok(3), BraceOpenTok, Cmd("press"), KeyTok("A")>>,
      <<KeyTok("UNKNOWN_KEY")>> }

(***************************************************************************)
(* Actions of the compiler.                                                *)
(***************************************************************************)
Outcome(e, r) == [source |-> source, exc |-> e, result |-> r]

\* the state after a statement, or after the exception it raised
Apply(m) ==
    /\ bytecode' = m.bytecode
    /\ current_press_time' = m.current_press_time
    /\ current_interkey_time' = m.current_interkey_time
    /\ counter_index' = m.counter_index
    /\ loop_stack' = m.loop_stack
    /\ tokens' = m.tokens
    /\ frames' = m.frames
    /\ emitted' = m.emitted
    /\ exc' = m.exc
    /\ pc' = IF m.exc # "" THEN "done" ELSE "compile"
    /\ history' = IF m.exc # "" THEN Append(history, Outcome(m.exc, <<>>)) ELSE history
    /\ UNCHANGED << source, result, calls, lex, disVars, usbVars, cliVars >>

\* compiler.compile(src): Lexer(source), then _compile_statements
Call(src) ==
    /\ source' = src
    /\ frames' = <<>>
    /\ emitted' = <<>>
    /\ result' = <<>>
    /\ calls' = calls + 1
    /\ IF LexerRaises(src)
       THEN /\ tokens' = <<>>
            /\ exc' = "CompileError"
            /\ pc' = "done"
            /\ history' = Append(history, [source |-> src, exc |-> "CompileError",
                                            result |-> <<>>])
       ELSE /\ tokens' = Lexer(src)
            /\ exc' = ""
            /\ pc' = "compile"
            /\ UNCHANGED history
    /\ UNCHANGED << bytecode, current_press_time, current_interkey_time,
                    counter_index, loop_stack, lex, disVars, usbVars, cliVars >>

\* the first compile call on a freshly constructed Compiler
Compile ==
    /\ pc = "idle"
    /\ calls = 0
    /\ \E src \in Sources : Call(src)

\* a further compile call on the same Compiler object
CompileAgain ==
    /\ pc \in {"idle", "done"}
    /\ calls < MaxCalls
    /\ \E src \in ReuseSources : Call(src)

\* _compile_statement dispatches on the command
AtCommand(v) ==
    /\ pc = "compile"
    /\ Head(tokens).type = "COMMAND"
    /\ Head(tokens).value = v

StmtPressTime == AtCommand("press_time") /\ Apply(CompilePressTime(M))
StmtInterkeyTime == AtCommand("interkey_time") /\ Apply(CompileInterkeyTime(M))
StmtKeydn == AtCommand("keydn") /\ Apply(CompileKeydn(M))
StmtKeyup == AtCommand("keyup") /\ Apply(CompileKeyup(M))
StmtPress == AtCommand("press") /\ Apply(CompilePress(M))
StmtType == AtCommand("type") /\ Apply(CompileType(M))
StmtPause == AtCommand("pause") /\ Apply(CompilePause(M))
StmtRepeat == AtCommand("repeat") /\ Apply(CompileRepeat(M))

\* _compile_statements: lexer.tokens.pop(0) on a COMMENT
SkipComment ==
    /\ pc = "compile"
    /\ Head(tokens).type = "COMMENT"
    /\ Apply(Pop(M))

\* _compile_statement: "Expected command, got ..."
ExpectedCommand ==
    /\ pc = "compile"
    /\ Head(tokens).type \notin {"COMMAND", "COMMENT", "BRACE_CLOSE", "EOF"}
    /\ Apply(Raise(M, "CompileError"))

\* _compile_statements returns (EOF or a closing brace) inside _compile_repeat
RepeatEnd ==
    /\ pc = "compile"
    /\ frames # <<>>
    /\ Head(tokens).type \in {"EOF", "BRACE_CLOSE"}
    /\ Apply(CompileRepeatEnd(M))

\* _compile_statements returns to compile, which returns bytes(self.bytecode)
Return ==
    /\ pc = "compile"
    /\ frames = <<>>
    /\ Head(tokens).type \in {"EOF", "BRACE_CLOSE"}
    /\ LET r == CompileBytes(M)
       IN  /\ exc' = r.exc
           /\ result' = r.result
           /\ history' = Append(history, Outcome(r.exc, r.result))
    /\ pc' = "done"
    /\ UNCHANGED << bytecode, current_press_time, current_interkey_time,
                    counter_index, loop_stack, source, tokens, frames, emitted,
                    calls, lex, disVars, usbVars, cliVars >>

CompileStep ==
    \/ StmtPressTime
    \/ StmtInterkeyTime
    \/ StmtKeydn
    \/ StmtKeyup
    \/ StmtPress
    \/ StmtType
    \/ StmtPause
    \/ StmtRepeat
    \/ SkipComment
    \/ ExpectedCommand
    \/ RepeatEnd
    \/ Return

(***************************************************************************)
(* Actions of the disassembler, run on the bytes a compile call returned.  *)
(***************************************************************************)
Disassemble ==
    /\ pc = "done"
    /\ exc = ""
    /\ dis_state = "idle"
    /\ dis_in' = result
    /\ dis_pc' = 0
    /\ instructions' = <<>>
    /\ dis_state' = "run"
    /\ UNCHANGED << compilerVars, usbVars, cliVars >>

\* disassemble(bytecode) on the byte sequences of ByteSources
DisassembleBytes ==
    /\ dis_state = "idle"
    /\ \E data \in ByteSources :
          /\ dis_in' = data
          /\ dis_pc' = 0
          /\ instructions' = <<>>
          /\ dis_state' = "run"
    /\ UNCHANGED << compilerVars, usbVars, cliVars >>

\* disassemble(bytecode) on a KEYDN with any modifier byte and the code of
\* one name of KEY_MAP
DisassembleKey ==
    /\ dis_state = "idle"
    /\ \E modifier \in 0..255, K \in DOMAIN KEY_MAP :
          dis_in' = <<OP_KEYDN, modifier, 1, KEY_MAP[K]>>
    /\ dis_pc' = 0
    /\ instructions' = <<>>
    /\ dis_state' = "run"
    /\ UNCHANGED << compilerVars, usbVars, cliVars >>

\* one iteration of `while pc < len(bytecode)`
DisassembleStep ==
    /\ dis_state = "run"
    /\ dis_pc < Len(dis_in)
    /\ LET d == Decode(dis_in, dis_pc)
       IN  /\ instructions' = Append(instructions, d.line)
           /\ dis_pc' = d.pc
           /\ dis_state' = IF d.brk THEN "done" ELSE "run"
    /\ UNCHANGED << dis_in, compilerVars, usbVars, cliVars >>

\* the loop ends: return instructions
DisassembleReturn ==
    /\ dis_state = "run"
    /\ dis_pc >= Len(dis_in)
    /\ dis_state' = "done"
    /\ UNCHANGED << dis_in, dis_pc, instructions, compilerVars, usbVars, cliVars >>

(***************************************************************************)
(* The raw HID transport, ODKeyConfigUsb (odkey_config_usb.py).            *)
(*                                                                         *)
(* bytes and bytearray values are sequences of 0..255.  A Python str is a  *)
(* record [len |-> number of characters, utf8 |-> its UTF-8 encoding]:     *)
(* len(key) counts characters, key.encode("utf-8") gives bytes.  A program *)
(* to upload is a record [len |-> n, seed |-> s] whose byte at 0-based     *)
(* index i is ProgramByte(B, i).                                           *)
(***************************************************************************)
RESP_OK == 16
RESP_ERROR == 17
CMD_FLASH_PROGRAM_WRITE_START == 32
CMD_FLASH_PROGRAM_WRITE_CHUNK == 33
CMD_FLASH_PROGRAM_WRITE_FINISH == 34
CMD_FLASH_PROGRAM_READ_START == 35
CMD_FLASH_PROGRAM_READ_CHUNK == 36
CMD_FLASH_PROGRAM_EXECUTE == 37
CMD_RAM_PROGRAM_WRITE_START == 38
CMD_RAM_PROGRAM_WRITE_CHUNK == 39
CMD_RAM_PROGRAM_WRITE_FINISH == 40
CMD_RAM_PROGRAM_READ_START == 41
CMD_RAM_PROGRAM_READ_CHUNK == 42
CMD_RAM_PROGRAM_EXECUTE == 43
CMD_NVS_SET_START == 48
CMD_NVS_SET_DATA == 49
CMD_NVS_SET_FINISH == 50
CMD_NVS_GET_START == 51
CMD_NVS_GET_DATA == 52
CMD_NVS_DELETE == 53
NVS_TYPE_STR == 33
NVS_TYPE_BLOB == 66

TYPE_TO_BYTE ==
    ("u8" :> 1) @@ ("i8" :> 17) @@ ("u16" :> 2) @@ ("i16" :> 18) @@ ("u32" :> 4)
    @@ ("i32" :> 20) @@ ("u64" :> 8) @@ ("i64" :> 24)
    @@ ("string" :> NVS_TYPE_STR) @@ ("blob" :> NVS_TYPE_BLOB)

BYTE_TO_TYPE ==
    (1 :> "u8") @@ (17 :> "i8") @@ (2 :> "u16") @@ (18 :> "i16") @@ (4 :> "u32")
    @@ (20 :> "i32") @@ (8 :> "u64") @@ (24 :> "i64")
    @@ (NVS_TYPE_STR :> "string") @@ (NVS_TYPE_BLOB :> "blob")

RAW_HID_REPORT_SIZE == 64
DATA_PAYLOAD_SIZE == 60
PROGRAM_FLASH_MAX_SIZE == 1048576
PROGRAM_RAM_MAX_SIZE == 8192
MAX_KEY_CHARS == 15
MAX_VALUE_BYTES == 1024
FIRST_CHUNK_SIZE == 55

\* the most frames one operation may write before the model stops following it
MaxFrames == 20

Min(a, b) == IF a < b THEN a ELSE b
Max(a, b) == IF a > b THEN a ELSE b

Zeros(n) == [i \in 1..n |-> 0]

\* struct.pack("<B" | "<H" | "<I" | "<Q", v): n little-endian bytes of v mod 2^(8n)
RECURSIVE StructPack(_, _)
StructPack(v, n) ==
    IF n = 0 THEN <<>> ELSE <<v % 256>> \o StructPack(v \div 256, n - 1)

\* struct.unpack of an unsigned little-endian integer
RECURSIVE UnpackUnsigned(_)
UnpackUnsigned(b) ==
    IF b = <<>> THEN 0 ELSE Head(b) + 256 * UnpackUnsigned(Tail(b))

\* struct.unpack of a signed (two's complement) little-endian integer
RECURSIVE UnpackSigned(_)
UnpackSigned(b) ==
    IF Len(b) = 1 THEN (IF b[1] >= 128 THEN b[1] - 256 ELSE b[1])
    ELSE Head(b) + 256 * UnpackSigned(Tail(b))

\* Python slice b[start:stop] (0-based, clipped to the length)
Slice(b, start, stop) == SubSeq(b, Min(start, Len(b)) + 1, Min(stop, Len(b)))

\* Python slice assignment arr[start:stop] = data on a bytearray: the slice,
\* clipped to the length, is replaced by data, whatever data's length
SliceAssign(arr, start, stop, data) ==
    LET s == Min(start, Len(arr))
        e == Max(s, Min(stop, Len(arr)))
    IN  SubSeq(arr, 1, s) \o data \o SubSeq(arr, e + 1, Len(arr))

\* send_command: the 64-byte payload, then hid_packet = report id 0 + payload
HidPacket(command, data) ==
    LET payload == SliceAssign(<<command>> \o Zeros(RAW_HID_REPORT_SIZE - 1),
                               4, 4 + Len(data), data)
    IN  SliceAssign(<<0>> \o Zeros(RAW_HID_REPORT_SIZE), 1, 1 + RAW_HID_REPORT_SIZE, payload)

\* what device.read gives within the five seconds: data, nothing, or an error
Resp(kind, data) == [kind |-> kind, data |-> data]

OkFrame(payload) ==
    Resp("data", <<RESP_OK, 0, 0, 0>> \o payload
                   \o Zeros(DATA_PAYLOAD_SIZE - Len(payload)))

\* send_command's (success, response) for what the device answered
SendResult(resp) ==
    IF resp.kind # "data" \/ resp.data = <<>> THEN [success |-> FALSE, response |-> <<>>]
    ELSE IF resp.data[1] = RESP_OK THEN [success |-> TRUE, response |-> resp.data]
    ELSE IF resp.data[1] = RESP_ERROR THEN [success |-> FALSE, response |-> resp.data]
    ELSE [success |-> FALSE, response |-> <<>>]

\* a Python str of a ASCII letters followed by w characters U+1F600
Str(a, w) ==
    [len |-> a + w,
     utf8 |-> [i \in 1..(a + 4 * w) |->
                  IF i <= a THEN 107
                  ELSE IF (i - a) % 4 = 1 THEN 240
                  ELSE IF (i - a) % 4 = 2 THEN 159
                  ELSE IF (i - a) % 4 = 3 THEN 152 ELSE 128]]

ProgramByte(B, i) == (B.seed + 7 * i) % 256

ProgramSlice(B, start, stop) ==
    [i \in 1..(Min(stop, B.len) - Min(start, B.len)) |-> ProgramByte(B, start + i - 1)]

NoRet == [kind |-> "none", ok |-> FALSE, msg |-> "", type |-> "", num |-> 0, data |-> <<>>]
Returns(ok) == [NoRet EXCEPT !.kind = "return", !.ok = ok]
ReturnsData(d) == [NoRet EXCEPT !.kind = "return", !.ok = TRUE, !.data = d]
ReturnsValue(t, n, d) ==
    [NoRet EXCEPT !.kind = "return", !.ok = TRUE, !.type = t, !.num = n, !.data = d]
Raises(msg) == [NoRet EXCEPT !.kind = "raise", !.msg = msg]

NoOp == [name |-> "none", target |-> "", program_data |-> [len |-> 0, seed |-> 0],
         key |-> Str(0, 0), value_type |-> "", value |-> 0, str |-> Str(0, 0),
         blob |-> <<>>]

NoLocal ==
    [cmd_start |-> 0, cmd_chunk |-> 0, cmd_finish |-> 0, size_data |-> <<>>,
     program_size |-> 0, bytes_sent |-> 0, value_bytes |-> <<>>, start_data |-> <<>>,
     program_data |-> <<>>, bytes_received |-> 0, type_name |-> "", value_size |-> 0,
     value_data |-> <<>>, elapsed |-> 0]

(***************************************************************************)
(* Arguments of the calls, and what the device may answer.                 *)
(***************************************************************************)
Targets == {"flash", "ram", "eeprom"}

ProgramSizes ==
    {0, 1, 59, 60, 61, 120, 130, PROGRAM_RAM_MAX_SIZE, PROGRAM_RAM_MAX_SIZE + 1,
     PROGRAM_FLASH_MAX_SIZE + 1}

Programs == { [len |-> n, seed |-> 3] : n \in ProgramSizes }

\* keys as (ASCII characters, four-byte characters)
KeyShapes ==
    { <<0, 0>>, <<1, 0>>, <<MAX_KEY_CHARS, 0>>, <<MAX_KEY_CHARS + 1, 0>>, <<0, 1>>,
      <<3, 12>>, <<0, 14>>, <<0, MAX_KEY_CHARS>>, <<MAX_KEY_CHARS - 1, 2>> }

Keys == { Str(k[1], k[2]) : k \in KeyShapes }

IntTypes == {"u8", "i8", "u16", "i16", "u32", "i32", "u64", "i64"}

IntValues == {0, 1, -1, 255, 256, 70000}

\* a Python str of a ASCII letters followed by z NUL characters
StrNul(a, z) == [len |-> a + z, utf8 |-> [i \in 1..(a + z) |-> IF i <= a THEN 107 ELSE 0]]

StrValues ==
    { Str(0, 0), Str(5, 0), Str(59, 0), Str(60, 0), Str(2, 1),
      Str(MAX_VALUE_BYTES - 1, 0), Str(MAX_VALUE_BYTES, 0), StrNul(1, 1), StrNul(0, 2) }

Pattern(n) == [i \in 1..n |-> 97 + (i % 26)]

BlobValues == { Pattern(n) : n \in {0, 1, 60, 61, MAX_VALUE_BYTES, MAX_VALUE_BYTES + 1} }

\* sizes the device reports for a stored program
ReadSizes == {0, 1, 60, 61, 125}

\* (type byte, size) the device reports for a stored NVS value
StoredValues ==
    { <<1, 1>>, <<1, 2>>, <<17, 1>>, <<2, 2>>, <<18, 2>>, <<4, 4>>, <<20, 4>>,
      <<8, 8>>, <<24, 8>>, <<NVS_TYPE_STR, 0>>, <<NVS_TYPE_STR, 6>>,
      <<NVS_TYPE_STR, 56>>, <<NVS_TYPE_STR, 120>>, <<NVS_TYPE_BLOB, 0>>,
      <<NVS_TYPE_BLOB, 55>>, <<NVS_TYPE_BLOB, 116>>, <<153, 1>> }

\* the value bytes that follow type and size in the GET_START response
StoredBytes(t) ==
    IF t \in {17, 18, 20, 24} THEN [i \in 1..FIRST_CHUNK_SIZE |-> 255]
    ELSE IF t \in {1, 2, 4, 8} THEN <<7, 1, 0, 0, 0, 0, 0, 0>> \o Zeros(FIRST_CHUNK_SIZE - 8)
    ELSE IF t = NVS_TYPE_STR
    THEN <<104, 101, 108, 108, 111, 0>> \o Pattern(FIRST_CHUNK_SIZE - 6)
    ELSE Pattern(FIRST_CHUNK_SIZE)

DeviceResponses(command) ==
    { Resp("data", <<RESP_ERROR>> \o Zeros(RAW_HID_REPORT_SIZE - 1)),
      Resp("data", <<66>> \o Zeros(RAW_HID_REPORT_SIZE - 1)),
      Resp("data", <<RESP_OK, 0, 0, 0>>),
      Resp("timeout", <<>>),
      Resp("exception", <<>>),
      Resp("write_exception", <<>>) }
    \cup
    ( IF command \in {CMD_FLASH_PROGRAM_READ_START, CMD_RAM_PROGRAM_READ_START}
      THEN { OkFrame(StructPack(n, 4)) : n \in ReadSizes }
      ELSE IF command \in {CMD_FLASH_PROGRAM_READ_CHUNK, CMD_RAM_PROGRAM_READ_CHUNK}
      THEN { OkFrame(Pattern(DATA_PAYLOAD_SIZE)),
             Resp("data", <<RESP_OK, 0, 0, 0>> \o Pattern(30)) }
      ELSE IF command = CMD_NVS_GET_START
      THEN { OkFrame(<<v[1]>> \o StructPack(v[2], 4) \o StoredBytes(v[1])) :
                v \in StoredValues }
      ELSE IF command = CMD_NVS_GET_DATA
      THEN { OkFrame(Pattern(DATA_PAYLOAD_SIZE)) }
      ELSE { OkFrame(<<>>) } )

(***************************************************************************)
(* The test double: a device that keeps the first `size` bytes of the      *)
(* chunks of a write session as the stored program, and the type byte and  *)
(* first `length` bytes of the data of a set session as the stored value,  *)
(* and answers the read and get sessions from what it keeps.               *)
(***************************************************************************)
NoMock ==
    [on |-> FALSE, wsize |-> 0, wbuf |-> <<>>, program |-> <<>>, rcur |-> 0,
     stype |-> 0, slen |-> 0, sbuf |-> <<>>, nvs |-> [type |-> 0, value |-> <<>>],
     gcur |-> 0, reply |-> Resp("timeout", <<>>),
     sent |-> 0, owed |-> <<>>, queue |-> <<>>, taken |-> 0, clean |-> TRUE,
     closed |-> FALSE]

ErrorFrame == Resp("data", <<RESP_ERROR>> \o Zeros(RAW_HID_REPORT_SIZE - 1))

\* the double is handed a report: hidapi strips the report id, the device
\* takes the 64 bytes that follow it
MockReceive(m, hid_packet) ==
    LET frame == Slice(hid_packet, 1, 1 + RAW_HID_REPORT_SIZE)
        command == frame[1]
        data == Slice(frame, 4, RAW_HID_REPORT_SIZE)
    IN  IF command \in {CMD_FLASH_PROGRAM_WRITE_START, CMD_RAM_PROGRAM_WRITE_START}
        THEN [m EXCEPT !.wsize = UnpackUnsigned(Slice(data, 0, 4)), !.wbuf = <<>>,
                       !.reply = OkFrame(<<>>)]
        ELSE IF command \in {CMD_FLASH_PROGRAM_WRITE_CHUNK, CMD_RAM_PROGRAM_WRITE_CHUNK}
        THEN [m EXCEPT !.wbuf = @ \o data, !.reply = OkFrame(<<>>)]
        ELSE IF command \in {CMD_FLASH_PROGRAM_WRITE_FINISH, CMD_RAM_PROGRAM_WRITE_FINISH}
        THEN [m EXCEPT !.program = Slice(m.wbuf, 0, m.wsize), !.wbuf = <<>>,
                       !.reply = OkFrame(<<>>)]
        ELSE IF command \in {CMD_FLASH_PROGRAM_READ_START, CMD_RAM_PROGRAM_READ_START}
        THEN [m EXCEPT !.rcur = 0, !.reply = OkFrame(StructPack(Len(m.program), 4))]
        ELSE IF command \in {CMD_FLASH_PROGRAM_READ_CHUNK, CMD_RAM_PROGRAM_READ_CHUNK}
        THEN [m EXCEPT !.rcur = @ + DATA_PAYLOAD_SIZE,
                       !.reply = OkFrame(Slice(m.program, m.rcur,
                                               m.rcur + DATA_PAYLOAD_SIZE))]
        ELSE IF command = CMD_NVS_SET_START
        THEN [m EXCEPT !.stype = data[1], !.slen = UnpackUnsigned(Slice(data, 1, 5)),
                       !.sbuf = <<>>, !.reply = OkFrame(<<>>)]
        ELSE IF command = CMD_NVS_SET_DATA
        THEN [m EXCEPT !.sbuf = @ \o data, !.reply = OkFrame(<<>>)]
        ELSE IF command = CMD_NVS_SET_FINISH
        THEN [m EXCEPT !.nvs = [type |-> m.stype, value |-> Slice(m.sbuf, 0, m.slen)],
                       !.sbuf = <<>>, !.reply = OkFrame(<<>>)]
        ELSE IF command = CMD_NVS_GET_START
        THEN IF m.nvs.type = 0 THEN [m EXCEPT !.reply = ErrorFrame]
             ELSE [m EXCEPT !.gcur = FIRST_CHUNK_SIZE,
                            !.reply = OkFrame(<<m.nvs.type>>
                                              \o StructPack(Len(m.nvs.value), 4)
                                              \o Slice(m.nvs.value, 0, FIRST_CHUNK_SIZE))]
        ELSE IF command = CMD_NVS_GET_DATA
        THEN [m EXCEPT !.gcur = @ + DATA_PAYLOAD_SIZE,
                       !.reply = OkFrame(Slice(m.nvs.value, m.gcur,
                                               m.gcur + DATA_PAYLOAD_SIZE))]
        ELSE IF command = CMD_NVS_DELETE
        THEN [m EXCEPT !.nvs = NoMock.nvs, !.reply = OkFrame(<<>>)]
        ELSE [m EXCEPT !.reply = OkFrame(<<>>)]

\* what send_command may get after it wrote `command`
Answers(command) == IF mock.on THEN {mock.reply} ELSE DeviceResponses(command)

NoLast == [upload |-> NoOp, nvs_set |-> NoOp]

(***************************************************************************)
(* Actions of the transport.                                               *)
(***************************************************************************)
\* the transport is used as a library, by no CLI command
NoCli ==
    [pc |-> "none", command |-> "", interface |-> "", call |-> NoOp, execute |-> FALSE,
     parses |-> TRUE, post |-> "none", config |-> "none", closes |-> 0, failed |-> FALSE,
     raised |-> "", exit |-> -1]

\* the calls of operation `name` that can be made on the transport of
\* `interface`: any of `free` when the transport is used as a library, else
\* the one call the CLI command stands at
Args(interface, name, free) ==
    IF cli.pc = "none" THEN free
    ELSE IF cli.pc = "call" /\ cli.interface = interface /\ cli.call.name = name
    THEN {cli.call} ELSE {}

\* a call starts: nothing written yet
Begin(op) ==
    /\ usb_pc = "idle"
    /\ usb_op' = op
    /\ wire' = <<>>
    /\ acks' = <<>>
    /\ reads' = <<>>
    /\ usb_sc' = "write"
    /\ UNCHANGED << device, mock, last_ok, compilerVars, disVars, cliVars >>

\* the call ends before any frame is written
Ends(ret) ==
    /\ usb_pc' = "done"
    /\ usb_ret' = ret
    /\ usb_local' = NoLocal

\* the call goes on to its first send_command
GoesOn(at, local) ==
    /\ usb_pc' = at
    /\ usb_ret' = NoRet
    /\ usb_local' = local

\* send_command(command, data) at position `at`, up to and including a
\* device.write that does not raise: the report is handed to the device
Writes(at, command, data) ==
    /\ usb_pc = at
    /\ usb_sc = "write"
    /\ device = "open"
    /\ usb_sc' = "read"
    /\ wire' = Append(wire, [command |-> command, data |-> data,
                              hid_packet |-> HidPacket(command, data)])
    /\ mock' = IF mock.on THEN MockReceive(mock, HidPacket(command, data)) ELSE mock
    /\ UNCHANGED << device, usb_op, usb_pc, usb_local, usb_ret, acks, reads, last_ok,
                    compilerVars, disVars, cliVars >>

\* how a send_command ended: with a response read ("ok", "error",
\* "unexpected"), or without one
AckOf(resp) ==
    IF resp.kind # "data" THEN resp.kind
    ELSE IF resp.data = <<>> THEN "timeout"
    ELSE IF resp.data[1] = RESP_OK THEN "ok"
    ELSE IF resp.data[1] = RESP_ERROR THEN "error" ELSE "unexpected"

\* the rest of send_command(command, data) at position `at`: device.write
\* raised, or the read loop ended with resp
Sends(at, command, data, resp) ==
    /\ usb_pc = at
    /\ IF resp.kind = "write_exception" THEN usb_sc = "write" ELSE usb_sc = "read"
    /\ usb_sc' = "write"
    /\ acks' = Append(acks, AckOf(resp))
    /\ reads' = IF usb_op.name \in {"download_program", "nvs_get", "send_command"}
               THEN Append(reads, SendResult(resp).response) ELSE reads
    /\ UNCHANGED << device, usb_op, wire, mock, last_ok, compilerVars, disVars, cliVars >>

\* the call returns or raises after a send_command
Finish(ret) ==
    /\ usb_pc' = "done"
    /\ usb_ret' = ret
    /\ UNCHANGED usb_local

Continue(at, local) ==
    /\ usb_pc' = at
    /\ usb_local' = local
    /\ UNCHANGED usb_ret

\* the caller has the outcome of the call; the next call can be made
Returned ==
    /\ usb_pc = "done"
    /\ cli.pc = "none"
    /\ usb_pc' = "idle"
    /\ usb_op' = NoOp
    /\ usb_local' = NoLocal
    /\ wire' = <<>>
    /\ acks' = <<>>
    /\ reads' = <<>>
    /\ usb_ret' = NoRet
    /\ last_ok' = IF mock.on /\ usb_ret.kind = "return" /\ usb_ret.ok
                  THEN IF usb_op.name = "upload_program"
                       THEN [last_ok EXCEPT !.upload = usb_op]
                       ELSE IF usb_op.name = "nvs_set"
                       THEN [last_ok EXCEPT !.nvs_set = usb_op]
                       ELSE last_ok
                  ELSE last_ok
    /\ UNCHANGED << device, usb_sc, mock, compilerVars, disVars, cliVars >>

\* find_device: the device is found and opened, or not found.  mock.closed
\* tells that close() was called and no find_device has succeeded since.
FindDevice ==
    /\ usb_pc = "idle"
    /\ cli.pc = "none"
    /\ device = "none"
    /\ device' \in {"none", "open"}
    /\ mock' = [mock EXCEPT !.closed = IF device' = "open" THEN FALSE ELSE @]
    /\ UNCHANGED << usb_op, usb_pc, usb_local, wire, usb_ret, usb_sc, acks, reads,
                    last_ok, compilerVars, disVars, cliVars >>

\* find_device: the device is found, self.device = hid.device(), and
\* open_path raises; the except clause returns False and self.device stays
\* the handle that was never opened
FindDeviceOpenFails ==
    /\ usb_pc = "idle"
    /\ cli.pc = "none"
    /\ device = "none"
    /\ device' = "unopened"
    /\ UNCHANGED << usb_op, usb_pc, usb_local, wire, usb_ret, usb_sc, acks, reads, mock,
                    last_ok, compilerVars, disVars, cliVars >>

\* close: `if self.device:` close the handle and forget it
Close ==
    /\ usb_pc = "idle"
    /\ cli.pc = "none"
    /\ device' = "none"
    /\ mock' = [mock EXCEPT !.closed = TRUE]
    /\ UNCHANGED << usb_op, usb_pc, usb_local, wire, usb_ret, usb_sc, acks, reads,
                    last_ok, compilerVars, disVars, cliVars >>

\* upload_program up to its first send_command
UploadArgs ==
    { [NoOp EXCEPT !.name = "upload_program", !.program_data = B, !.target = target] :
         B \in Programs, target \in Targets }

UploadProgram ==
    \E op \in Args("usb", "upload_program", UploadArgs) :
       LET B == op.program_data
           target == op.target
       IN
       /\ Begin(op)
       /\ IF device = "none" THEN Ends(Raises("Device not connected"))
          ELSE IF target \notin {"flash", "ram"} THEN Ends(Raises("Invalid target"))
          ELSE IF B.len > (IF target = "flash" THEN PROGRAM_FLASH_MAX_SIZE
                           ELSE PROGRAM_RAM_MAX_SIZE)
          THEN Ends(Raises("Program too large"))
          ELSE GoesOn("upload_start",
                 [NoLocal EXCEPT
                    !.program_size = B.len,
                    !.cmd_start = IF target = "flash" THEN CMD_FLASH_PROGRAM_WRITE_START
                                  ELSE CMD_RAM_PROGRAM_WRITE_START,
                    !.cmd_chunk = IF target = "flash" THEN CMD_FLASH_PROGRAM_WRITE_CHUNK
                                  ELSE CMD_RAM_PROGRAM_WRITE_CHUNK,
                    !.cmd_finish = IF target = "flash" THEN CMD_FLASH_PROGRAM_WRITE_FINISH
                                   ELSE CMD_RAM_PROGRAM_WRITE_FINISH,
                    !.size_data = StructPack(B.len, 4)])

\* Step 1: WRITE_START
UploadStart ==
    \/ Writes("upload_start", usb_local.cmd_start, usb_local.size_data)
    \/ \E resp \in Answers(usb_local.cmd_start) :
       /\ Sends("upload_start", usb_local.cmd_start, usb_local.size_data, resp)
       /\ IF ~SendResult(resp).success THEN Finish(Returns(FALSE))
          ELSE Continue(IF 0 < usb_local.program_size THEN "upload_chunk"
                        ELSE "upload_finish",
                        [usb_local EXCEPT !.bytes_sent = 0])

\* faulty variant of UploadChunk: the last chunk is sent without padding
UploadChunkNoPadding ==
    LET chunk_size == Min(DATA_PAYLOAD_SIZE, usb_local.program_size - usb_local.bytes_sent)
        chunk_data == ProgramSlice(usb_op.program_data, usb_local.bytes_sent,
                                   usb_local.bytes_sent + chunk_size)
    IN  \/ Writes("upload_chunk", usb_local.cmd_chunk, chunk_data)
        \/ \E resp \in Answers(usb_local.cmd_chunk) :
           /\ Sends("upload_chunk", usb_local.cmd_chunk, chunk_data, resp)
           /\ IF ~SendResult(resp).success THEN Finish(Returns(FALSE))
              ELSE Continue(IF usb_local.bytes_sent + chunk_size < usb_local.program_size
                            THEN "upload_chunk" ELSE "upload_finish",
                            [usb_local EXCEPT !.bytes_sent = @ + chunk_size])

\* faulty variant of UploadChunk: every chunk but the last is written
\* without waiting for the response to the one before
UploadChunkPipelined ==
    LET chunk_size == Min(DATA_PAYLOAD_SIZE, usb_local.program_size - usb_local.bytes_sent)
        slice == ProgramSlice(usb_op.program_data, usb_local.bytes_sent,
                              usb_local.bytes_sent + chunk_size)
        chunk_data == IF Len(slice) < DATA_PAYLOAD_SIZE
                      THEN slice \o Zeros(DATA_PAYLOAD_SIZE - Len(slice))
                      ELSE slice
        last == usb_local.bytes_sent + chunk_size >= usb_local.program_size
    IN  \/ /\ last
           /\ Writes("upload_chunk", usb_local.cmd_chunk, chunk_data)
        \/ /\ ~last
           /\ usb_pc = "upload_chunk"
           /\ usb_sc = "write"
           /\ wire' = Append(wire, [command |-> usb_local.cmd_chunk, data |-> chunk_data,
                                     hid_packet |-> HidPacket(usb_local.cmd_chunk,
                                                              chunk_data)])
           /\ usb_local' = [usb_local EXCEPT !.bytes_sent = @ + chunk_size]
           /\ UNCHANGED << device, usb_op, usb_pc, usb_ret, usb_sc, acks, reads, mock, last_ok,
                           compilerVars, disVars, cliVars >>
        \/ \E resp \in Answers(usb_local.cmd_chunk) :
           /\ Sends("upload_chunk", usb_local.cmd_chunk, chunk_data, resp)
           /\ IF ~SendResult(resp).success THEN Finish(Returns(FALSE))
              ELSE Continue("upload_finish",
                            [usb_local EXCEPT !.bytes_sent = @ + chunk_size])

\* Step 2: one iteration of the chunk loop
UploadChunk ==
    LET chunk_size == Min(DATA_PAYLOAD_SIZE, usb_local.program_size - usb_local.bytes_sent)
        slice == ProgramSlice(usb_op.program_data, usb_local.bytes_sent,
                              usb_local.bytes_sent + chunk_size)
        chunk_data == IF Len(slice) < DATA_PAYLOAD_SIZE
                      THEN slice \o Zeros(DATA_PAYLOAD_SIZE - Len(slice))
                      ELSE slice
    IN  \/ Writes("upload_chunk", usb_local.cmd_chunk, chunk_data)
        \/ \E resp \in Answers(usb_local.cmd_chunk) :
           /\ Sends("upload_chunk", usb_local.cmd_chunk, chunk_data, resp)
           /\ IF ~SendResult(resp).success THEN Finish(Returns(FALSE))
              ELSE Continue(IF usb_local.bytes_sent + chunk_size < usb_local.program_size
                            THEN "upload_chunk" ELSE "upload_finish",
                            [usb_local EXCEPT !.bytes_sent = @ + chunk_size])

\* Step 3: WRITE_FINISH
UploadFinish ==
    \/ Writes("upload_finish", usb_local.cmd_finish, usb_local.size_data)
    \/ \E resp \in Answers(usb_local.cmd_finish) :
       /\ Sends("upload_finish", usb_local.cmd_finish, usb_local.size_data, resp)
       /\ Finish(Returns(SendResult(resp).success))

\* download_program up to its first send_command
DownloadArgs == { [NoOp EXCEPT !.name = "download_program", !.target = target] :
                     target \in Targets }

DownloadProgram ==
    \E op \in Args("usb", "download_program", DownloadArgs) :
       LET target == op.target
       IN
       /\ Begin(op)
       /\ IF device = "none" THEN Ends(Raises("Device not connected"))
          ELSE IF target \notin {"flash", "ram"} THEN Ends(Raises("Invalid target"))
          ELSE GoesOn("download_start",
                 [NoLocal EXCEPT
                    !.cmd_start = IF target = "flash" THEN CMD_FLASH_PROGRAM_READ_START
                                  ELSE CMD_RAM_PROGRAM_READ_START,
                    !.cmd_chunk = IF target = "flash" THEN CMD_FLASH_PROGRAM_READ_CHUNK
                                  ELSE CMD_RAM_PROGRAM_READ_CHUNK])

\* faulty variant of DownloadStart: a reported size of 0 is not refused
DownloadStartIgnoresZero ==
    \/ Writes("download_start", usb_local.cmd_start, <<>>)
    \/ \E resp \in Answers(usb_local.cmd_start) :
       LET r == SendResult(resp)
           program_size == UnpackUnsigned(Slice(r.response, 4, 8))
       IN  /\ Sends("download_start", usb_local.cmd_start, <<>>, resp)
           /\ IF ~r.success THEN Finish(Raises("Failed to start read session"))
              ELSE IF Len(r.response) < 8 THEN Finish(Raises("Invalid response from device"))
              ELSE Continue("download_chunk",
                            [usb_local EXCEPT !.program_size = program_size,
                                              !.program_data = <<>>,
                                              !.bytes_received = 0])

\* Step 1: READ_START
DownloadStart ==
    \/ Writes("download_start", usb_local.cmd_start, <<>>)
    \/ \E resp \in Answers(usb_local.cmd_start) :
       LET r == SendResult(resp)
           program_size == UnpackUnsigned(Slice(r.response, 4, 8))
       IN  /\ Sends("download_start", usb_local.cmd_start, <<>>, resp)
           /\ IF ~r.success THEN Finish(Raises("Failed to start read session"))
              ELSE IF Len(r.response) < 8 THEN Finish(Raises("Invalid response from device"))
              ELSE IF program_size = 0 THEN Finish(Raises("No program stored on device"))
              ELSE Continue("download_chunk",
                            [usb_local EXCEPT !.program_size = program_size,
                                              !.program_data = <<>>,
                                              !.bytes_received = 0])

\* faulty variant of DownloadChunk: the padding of the last chunk is kept
DownloadChunkKeepsPadding ==
    \/ Writes("download_chunk", usb_local.cmd_chunk, <<>>)
    \/ \E resp \in Answers(usb_local.cmd_chunk) :
       LET r == SendResult(resp)
           program_data == usb_local.program_data \o Slice(r.response, 4, 64)
           bytes_received == usb_local.bytes_received + 60
       IN  /\ Sends("download_chunk", usb_local.cmd_chunk, <<>>, resp)
           /\ IF ~r.success THEN Finish(Raises("Failed to read chunk"))
              ELSE IF bytes_received < usb_local.program_size
              THEN Continue("download_chunk",
                            [usb_local EXCEPT !.program_data = program_data,
                                              !.bytes_received = bytes_received])
              ELSE /\ usb_pc' = "done"
                   /\ usb_local' = [usb_local EXCEPT !.program_data = program_data,
                                                     !.bytes_received = bytes_received]
                   /\ usb_ret' = ReturnsData(program_data)

\* Step 2: one iteration of the chunk loop, and the return after the last
DownloadChunk ==
    \/ Writes("download_chunk", usb_local.cmd_chunk, <<>>)
    \/ \E resp \in Answers(usb_local.cmd_chunk) :
       LET r == SendResult(resp)
           chunk_data == Slice(r.response, 4, 64)
           bytes_needed == Min(60, usb_local.program_size - usb_local.bytes_received)
           program_data == usb_local.program_data \o Slice(chunk_data, 0, bytes_needed)
           bytes_received == usb_local.bytes_received + bytes_needed
       IN  /\ Sends("download_chunk", usb_local.cmd_chunk, <<>>, resp)
           /\ IF ~r.success THEN Finish(Raises("Failed to read chunk"))
              ELSE IF bytes_received < usb_local.program_size
              THEN Continue("download_chunk",
                            [usb_local EXCEPT !.program_data = program_data,
                                              !.bytes_received = bytes_received])
              ELSE /\ usb_pc' = "done"
                   /\ usb_local' = [usb_local EXCEPT !.program_data = program_data,
                                                     !.bytes_received = bytes_received]
                   /\ usb_ret' = ReturnsData(Slice(program_data, 0, usb_local.program_size))

\* execute_program up to its send_command
ExecuteArgs == { [NoOp EXCEPT !.name = "execute_program", !.target = target] :
                    target \in Targets }

ExecuteProgram ==
    \E op \in Args("usb", "execute_program", ExecuteArgs) :
       LET target == op.target
       IN
       /\ Begin(op)
       /\ IF device = "none" THEN Ends(Raises("Device not connected"))
          ELSE IF target \notin {"flash", "ram"} THEN Ends(Raises("Invalid target"))
          ELSE GoesOn("execute",
                 [NoLocal EXCEPT
                    !.cmd_start = IF target = "flash" THEN CMD_FLASH_PROGRAM_EXECUTE
                                  ELSE CMD_RAM_PROGRAM_EXECUTE])

ExecuteSend ==
    \/ Writes("execute", usb_local.cmd_start, <<>>)
    \/ \E resp \in Answers(usb_local.cmd_start) :
       /\ Sends("execute", usb_local.cmd_start, <<>>, resp)
       /\ Finish(Returns(SendResult(resp).success))

Fails(msg) == [Returns(FALSE) EXCEPT !.msg = msg]

\* value_bytes of nvs_set_int, nvs_set_str and nvs_set_blob
IntWidth(type_str) ==
    IF type_str \in {"u8", "i8"} THEN 1
    ELSE IF type_str \in {"u16", "i16"} THEN 2
    ELSE IF type_str \in {"u32", "i32"} THEN 4 ELSE 8

ValueBytes(op) ==
    IF op.value_type = "string" THEN op.str.utf8 \o <<0>>
    ELSE IF op.value_type = "blob" THEN op.blob
    ELSE StructPack(op.value, IntWidth(op.value_type))

\* start_data of the SET_START command: type(1) + length(4) + key(16) + padding(4)
SetStartData(type_byte, value_bytes, key) ==
    LET a == <<type_byte>> \o Zeros(24)
        b == SliceAssign(a, 1, 5, StructPack(Len(value_bytes), 4))
    IN  SliceAssign(b, 5, 5 + key.len, key.utf8)

\* start_data of GET_START and delete_data of DELETE: key(16) + padding(4)
KeyData(key) == SliceAssign(Zeros(20), 0, key.len, key.utf8)

\* the calls of nvs_set: every key with one value, and every type and value
\* with one key.  Integers of the model are 32-bit: a negative value is not
\* given to the unsigned types whose stored bytes would read back as 2^32 - 1
\* or more.
NvsSetArgs ==
    { [NoOp EXCEPT !.name = "nvs_set", !.key = k, !.value_type = "u8", !.value = 1] :
         k \in Keys }
    \cup { [NoOp EXCEPT !.name = "nvs_set", !.key = Str(1, 0), !.value_type = tv[1],
                        !.value = tv[2]] :
              tv \in { x \in IntTypes \X IntValues :
                          x[2] >= 0 \/ x[1] \notin {"u32", "u64"} } }
    \cup { [NoOp EXCEPT !.name = "nvs_set", !.key = k, !.value_type = "string", !.str = v] :
              k \in {Str(1, 0), Str(0, 1)}, v \in StrValues }
    \cup { [NoOp EXCEPT !.name = "nvs_set", !.key = Str(1, 0), !.value_type = "blob",
                        !.blob = v] : v \in BlobValues }
    \cup { [NoOp EXCEPT !.name = "nvs_set", !.key = Str(1, 0), !.value_type = "float"] }

\* nvs_set and the nvs_set_int / nvs_set_str / nvs_set_blob it calls, up to
\* the first send_command; an ODKeyUploadError makes nvs_set return False
NvsSet ==
    \E op \in Args("usb", "nvs_set", NvsSetArgs) :
       /\ Begin(op)
       /\ IF op.value_type \notin IntTypes \cup {"string", "blob"}
          THEN Ends(Fails("Invalid type"))
          ELSE IF device = "none" THEN Ends(Fails("Device not connected"))
          ELSE IF op.key.len > MAX_KEY_CHARS THEN Ends(Fails("Key too long"))
          ELSE IF /\ op.value_type \in {"string", "blob"}
                  /\ Len(ValueBytes(op)) > MAX_VALUE_BYTES
          THEN Ends(Fails("Value too large"))
          ELSE GoesOn("nvs_set_start",
                 [NoLocal EXCEPT
                    !.value_bytes = ValueBytes(op),
                    !.start_data = SetStartData(TYPE_TO_BYTE[op.value_type],
                                                ValueBytes(op), op.key)])

NvsSetStart ==
    \/ Writes("nvs_set_start", CMD_NVS_SET_START, usb_local.start_data)
    \/ \E resp \in Answers(CMD_NVS_SET_START) :
       /\ Sends("nvs_set_start", CMD_NVS_SET_START, usb_local.start_data, resp)
       /\ IF ~SendResult(resp).success
          THEN Finish(Fails("Failed to start NVS set operation"))
          ELSE Continue(IF 0 < Len(usb_local.value_bytes) THEN "nvs_set_data"
                        ELSE "nvs_set_finish",
                        [usb_local EXCEPT !.bytes_sent = 0])

\* faulty variant of NvsSetData: the result of send_command is not looked at
NvsSetDataIgnoresFailure ==
    LET chunk_size == Min(60, Len(usb_local.value_bytes) - usb_local.bytes_sent)
        chunk_data == IF usb_op.value_type \in IntTypes THEN usb_local.value_bytes
                      ELSE Slice(usb_local.value_bytes, usb_local.bytes_sent,
                                 usb_local.bytes_sent + chunk_size)
        sent == IF usb_op.value_type \in IntTypes THEN Len(usb_local.value_bytes)
                ELSE usb_local.bytes_sent + chunk_size
    IN  \/ Writes("nvs_set_data", CMD_NVS_SET_DATA, chunk_data)
        \/ \E resp \in Answers(CMD_NVS_SET_DATA) :
           /\ Sends("nvs_set_data", CMD_NVS_SET_DATA, chunk_data, resp)
           /\ Continue(IF sent < Len(usb_local.value_bytes) THEN "nvs_set_data"
                       ELSE "nvs_set_finish",
                       [usb_local EXCEPT !.bytes_sent = sent])

\* one SET_DATA: the whole value of an integer, a chunk of a string or blob
NvsSetData ==
    LET chunk_size == Min(60, Len(usb_local.value_bytes) - usb_local.bytes_sent)
        chunk_data == IF usb_op.value_type \in IntTypes THEN usb_local.value_bytes
                      ELSE Slice(usb_local.value_bytes, usb_local.bytes_sent,
                                 usb_local.bytes_sent + chunk_size)
        sent == IF usb_op.value_type \in IntTypes THEN Len(usb_local.value_bytes)
                ELSE usb_local.bytes_sent + chunk_size
    IN  \/ Writes("nvs_set_data", CMD_NVS_SET_DATA, chunk_data)
        \/ \E resp \in Answers(CMD_NVS_SET_DATA) :
           /\ Sends("nvs_set_data", CMD_NVS_SET_DATA, chunk_data, resp)
           /\ IF ~SendResult(resp).success
              THEN Finish(Fails("Failed to send NVS value data"))
              ELSE Continue(IF sent < Len(usb_local.value_bytes) THEN "nvs_set_data"
                            ELSE "nvs_set_finish",
                            [usb_local EXCEPT !.bytes_sent = sent])

NvsSetFinish ==
    \/ Writes("nvs_set_finish", CMD_NVS_SET_FINISH, <<>>)
    \/ \E resp \in Answers(CMD_NVS_SET_FINISH) :
       /\ Sends("nvs_set_finish", CMD_NVS_SET_FINISH, <<>>, resp)
       /\ IF ~SendResult(resp).success
          THEN Finish(Fails("Failed to finish NVS set operation"))
          ELSE Finish(Returns(TRUE))

\* str.rstrip of NUL characters, on the bytes of an ASCII string
RStripNul(b) ==
    LET keep == { i \in 1..Len(b) : b[i] # 0 }
    IN  IF keep = {} THEN <<>>
        ELSE SubSeq(b, 1, CHOOSE i \in keep : \A j \in keep : j <= i)

\* "Decode value based on type": struct.unpack raises when the length of
\* value_data is not the width of the type
DecodeValue(type_name, value_data) ==
    IF type_name \in IntTypes
    THEN IF Len(value_data) # IntWidth(type_name) THEN Fails("NVS get failed")
         ELSE IF type_name \in {"i8", "i16", "i32", "i64"}
         THEN ReturnsValue(type_name, UnpackSigned(value_data), <<>>)
         ELSE ReturnsValue(type_name, UnpackUnsigned(value_data), <<>>)
    ELSE IF type_name = "string" THEN ReturnsValue(type_name, 0, RStripNul(value_data))
    ELSE ReturnsValue(type_name, 0, value_data)

\* nvs_get up to its first send_command
NvsGetArgs == { [NoOp EXCEPT !.name = "nvs_get", !.key = key] : key \in Keys }

NvsGet ==
    \E op \in Args("usb", "nvs_get", NvsGetArgs) :
       LET key == op.key
       IN
       /\ Begin(op)
       /\ IF device = "none" THEN Ends(Fails("Device not connected"))
          ELSE IF key.len > MAX_KEY_CHARS THEN Ends(Fails("Key too long"))
          ELSE GoesOn("nvs_get_start", [NoLocal EXCEPT !.start_data = KeyData(key)])

\* GET_START, the type and size of the response, and its first chunk
NvsGetStart ==
    \/ Writes("nvs_get_start", CMD_NVS_GET_START, usb_local.start_data)
    \/ \E resp \in Answers(CMD_NVS_GET_START) :
       LET r == SendResult(resp)
           value_type == r.response[5]
           value_size == UnpackUnsigned(Slice(r.response, 5, 9))
           first_chunk_size == Min(FIRST_CHUNK_SIZE, value_size)
           took == value_size > 0 /\ Len(r.response) >= 9 + first_chunk_size
           value_data == IF took THEN Slice(r.response, 9, 9 + first_chunk_size) ELSE <<>>
           bytes_received == IF took THEN first_chunk_size ELSE 0
       IN  /\ Sends("nvs_get_start", CMD_NVS_GET_START, usb_local.start_data, resp)
           /\ IF ~r.success THEN Finish(Fails("Failed to start NVS get operation"))
              ELSE IF Len(r.response) < 9 THEN Finish(Fails("Invalid response from device"))
              ELSE IF value_type \notin DOMAIN BYTE_TO_TYPE
              THEN Finish(Fails("Unknown value type"))
              ELSE IF bytes_received < value_size
              THEN Continue("nvs_get_data",
                            [usb_local EXCEPT !.type_name = BYTE_TO_TYPE[value_type],
                                              !.value_size = value_size,
                                              !.value_data = value_data,
                                              !.bytes_received = bytes_received])
              ELSE /\ usb_pc' = "done"
                   /\ usb_local' = [usb_local EXCEPT !.type_name = BYTE_TO_TYPE[value_type],
                                                     !.value_size = value_size,
                                                     !.value_data = value_data,
                                                     !.bytes_received = bytes_received]
                   /\ usb_ret' = DecodeValue(BYTE_TO_TYPE[value_type], value_data)

\* one iteration of the "Subsequent chunks" loop, and the decoding after it
NvsGetData ==
    \/ Len(wire) < MaxFrames /\ Writes("nvs_get_data", CMD_NVS_GET_DATA, <<>>)
    \/ \E resp \in Answers(CMD_NVS_GET_DATA) :
       LET r == SendResult(resp)
           chunk_size == Min(60, usb_local.value_size - usb_local.bytes_received)
           took == Len(r.response) >= 4 + chunk_size
           value_data == IF took
                         THEN usb_local.value_data \o Slice(r.response, 4, 4 + chunk_size)
                         ELSE usb_local.value_data
           bytes_received == IF took THEN usb_local.bytes_received + chunk_size
                             ELSE usb_local.bytes_received
       IN  /\ Sends("nvs_get_data", CMD_NVS_GET_DATA, <<>>, resp)
           /\ IF ~r.success THEN Finish(Fails("Failed to get NVS value data"))
              ELSE IF bytes_received < usb_local.value_size
              THEN Continue("nvs_get_data",
                            [usb_local EXCEPT !.value_data = value_data,
                                              !.bytes_received = bytes_received])
              ELSE /\ usb_pc' = "done"
                   /\ usb_local' = [usb_local EXCEPT !.value_data = value_data,
                                                     !.bytes_received = bytes_received]
                   /\ usb_ret' = DecodeValue(usb_local.type_name, value_data)

\* nvs_delete up to its send_command
NvsDeleteArgs == { [NoOp EXCEPT !.name = "nvs_delete", !.key = key] : key \in Keys }

NvsDelete ==
    \E op \in Args("usb", "nvs_delete", NvsDeleteArgs) :
       LET key == op.key
       IN
       /\ Begin(op)
       /\ IF device = "none" THEN Ends(Fails("Device not connected"))
          ELSE IF key.len > MAX_KEY_CHARS THEN Ends(Fails("Key too long"))
          ELSE GoesOn("nvs_delete", [NoLocal EXCEPT !.start_data = KeyData(key)])

NvsDeleteSend ==
    \/ Writes("nvs_delete", CMD_NVS_DELETE, usb_local.start_data)
    \/ \E resp \in Answers(CMD_NVS_DELETE) :
       /\ Sends("nvs_delete", CMD_NVS_DELETE, usb_local.start_data, resp)
       /\ IF ~SendResult(resp).success THEN Finish(Fails("Failed to delete NVS key"))
          ELSE Finish(Returns(TRUE))

(***************************************************************************)
(* send_command called directly, step by step: device.write, then the      *)
(* loop `while time.time() - start_time < timeout` around device.read.      *)
(* usb_local.elapsed counts the iterations that read nothing and slept;    *)
(* MaxPolls of them use up the five seconds.  device.read is called with   *)
(* no timeout_ms on a device that find_device opened without               *)
(* set_nonblocking, so besides data, nothing and an exception it has a     *)
(* fourth outcome: it does not come back while no report arrives           *)
(* (usb_sc = "blocked").                                                   *)
(***************************************************************************)
MaxPolls == 3

SendCommands ==
    { CMD_FLASH_PROGRAM_WRITE_START, CMD_FLASH_PROGRAM_READ_START, CMD_RAM_PROGRAM_EXECUTE,
      CMD_NVS_GET_DATA, CMD_NVS_DELETE, 0 }

SendArgs ==
    { [NoOp EXCEPT !.name = "send_command", !.value = command, !.blob = data] :
         command \in SendCommands, data \in { <<>>, Pattern(DATA_PAYLOAD_SIZE) } }

\* the (success, response_data) send_command returns for what came back
SendReturns(resp) ==
    [NoRet EXCEPT !.kind = "return", !.ok = SendResult(resp).success,
                  !.data = SendResult(resp).response]

\* send_command up to device.write
SendCommand ==
    /\ cli.pc = "none"
    /\ \E op \in SendArgs :
          /\ Begin(op)
          /\ IF device = "none" THEN Ends(Raises("Device not connected"))
             ELSE GoesOn("send", NoLocal)

\* device.write hands the report over, or raises
SendWrite ==
    \/ Writes("send", usb_op.value, usb_op.blob)
    \/ /\ Sends("send", usb_op.value, usb_op.blob, Resp("write_exception", <<>>))
       /\ Finish(SendReturns(Resp("write_exception", <<>>)))

\* one iteration of the loop in which device.read gave nothing: sleep
SendPoll ==
    /\ usb_pc = "send"
    /\ usb_sc = "read"
    /\ usb_local.elapsed < MaxPolls
    /\ usb_local' = [usb_local EXCEPT !.elapsed = @ + 1]
    /\ UNCHANGED << device, usb_op, usb_pc, wire, usb_ret, usb_sc, acks, reads, mock,
                    last_ok, compilerVars, disVars, cliVars >>

\* faulty variant of SendRead: a response with an unknown first byte is
\* handed to the caller
SendReadKeepsUnexpected ==
    /\ usb_local.elapsed < MaxPolls
    /\ \E resp \in { r \in DeviceResponses(usb_op.value) : r.kind \in {"data", "exception"} } :
          /\ Sends("send", usb_op.value, usb_op.blob, resp)
          /\ Finish([SendReturns(resp) EXCEPT !.data = resp.data])

\* an iteration in which device.read gave a response or raised
SendRead ==
    /\ usb_local.elapsed < MaxPolls
    /\ \E resp \in { r \in DeviceResponses(usb_op.value) : r.kind \in {"data", "exception"} } :
          /\ Sends("send", usb_op.value, usb_op.blob, resp)
          /\ Finish(SendReturns(resp))

\* the loop ends because the five seconds are over
SendTimeout ==
    /\ usb_local.elapsed >= MaxPolls
    /\ Sends("send", usb_op.value, usb_op.blob, Resp("timeout", <<>>))
    /\ Finish(SendReturns(Resp("timeout", <<>>)))

\* device.read does not come back: no report arrives
SendBlocks ==
    /\ usb_pc = "send"
    /\ usb_sc = "read"
    /\ usb_local.elapsed < MaxPolls
    /\ usb_sc' = "blocked"
    /\ UNCHANGED << device, usb_op, usb_pc, usb_local, wire, usb_ret, acks, reads, mock,
                    last_ok, compilerVars, disVars, cliVars >>


(***************************************************************************)
(* send_command on a device that answers in its own time.  The reports in  *)
(* flight on the open handle: mock.sent counts the frames device.write     *)
(* handed over, mock.owed holds the frames the device has not answered     *)
(* yet, mock.queue the input reports that wait at the host until a         *)
(* device.read takes them.  A report carries, besides its bytes, the       *)
(* number of the frame it answers (to), which the protocol does not        *)
(* transmit; mock.taken is that number for the report the last read took,  *)
(* mock.clean tells that nothing was in flight when the frame was written. *)
(***************************************************************************)
MaxLate == 3

LateArgs ==
    { [NoOp EXCEPT !.name = "send_command", !.value = command] :
         command \in {CMD_RAM_PROGRAM_READ_START, CMD_RAM_PROGRAM_WRITE_CHUNK} }

\* what the device answers to a frame
LateResponses(command) ==
    { IF command = CMD_RAM_PROGRAM_READ_START THEN OkFrame(StructPack(61, 4))
      ELSE OkFrame(<<>>),
      ErrorFrame }

\* send_command up to device.write
LateCommand ==
    /\ cli.pc = "none"
    /\ mock.sent < MaxLate
    /\ \E op \in LateArgs :
          /\ Begin(op)
          /\ IF device = "none" THEN Ends(Raises("Device not connected"))
             ELSE GoesOn("send", NoLocal)

\* device.write hands the report to the device
LateWrite ==
    /\ usb_pc = "send"
    /\ usb_sc = "write"
    /\ device = "open"
    /\ usb_sc' = "read"
    /\ wire' = Append(wire, [command |-> usb_op.value, data |-> usb_op.blob,
                              hid_packet |-> HidPacket(usb_op.value, usb_op.blob)])
    /\ mock' = [mock EXCEPT !.sent = @ + 1,
                            !.owed = Append(@, [id |-> mock.sent + 1,
                                                command |-> usb_op.value]),
                            !.taken = 0,
                            !.clean = mock.owed = <<>> /\ mock.queue = <<>>]
    /\ UNCHANGED << device, usb_op, usb_pc, usb_local, usb_ret, acks, reads, last_ok,
                    compilerVars, disVars, cliVars >>

\* the device sends its response to the oldest frame it has not answered,
\* whether or not a send_command is still waiting for it
DeviceAnswers ==
    /\ mock.owed # <<>>
    /\ \E resp \in LateResponses(Head(mock.owed).command) :
          mock' = [mock EXCEPT !.owed = Tail(@),
                               !.queue = Append(@, [to |-> Head(mock.owed).id,
                                                    data |-> resp.data])]
    /\ UNCHANGED << device, usb_op, usb_pc, usb_local, wire, usb_ret, usb_sc, acks, reads,
                    last_ok, compilerVars, disVars, cliVars >>

\* an iteration in which device.read found no report: sleep
LatePoll ==
    /\ mock.queue = <<>>
    /\ SendPoll

\* an iteration in which device.read gave the oldest waiting report
LateRead ==
    /\ usb_pc = "send"
    /\ usb_sc = "read"
    /\ usb_local.elapsed < MaxPolls
    /\ mock.queue # <<>>
    /\ LET resp == Resp("data", Head(mock.queue).data)
       IN  /\ usb_sc' = "write"
           /\ acks' = Append(acks, AckOf(resp))
           /\ reads' = Append(reads, SendResult(resp).response)
           /\ mock' = [mock EXCEPT !.queue = Tail(@), !.taken = Head(mock.queue).to]
           /\ Finish(SendReturns(resp))
    /\ UNCHANGED << device, usb_op, wire, last_ok, compilerVars, disVars, cliVars >>
(***************************************************************************)
(* The Lexer, character by character.  A source is a sequence of           *)
(* characters; newline, the double quote and the backslash are written     *)
(* U+000A, U+0022 and U+005C.  lex.position is self.position (0-based),    *)
(* lex.line and lex.column are self.line and self.column.  A token keeps,  *)
(* besides type, value, line and column, the positions at which it starts  *)
(* (at) and ends (end) in the source, which the Lexer does not store.      *)
(***************************************************************************)
MaxSrcLen == 4

NL == "U+000A"
QUOTE == "U+0022"
BACKSLASH == "U+005C"

\* str.isspace, str.isdigit, str.isalpha on the characters of the model
Digits == {"0", "1", "2", "3", "4", "5", "6", "7", "8", "9"}
Letters ==
    {"A", "B", "C", "D", "E", "F", "G", "H", "I", "J", "K", "L", "M",
     "N", "O", "P", "Q", "R", "S", "T", "U", "V", "W", "X", "Y", "Z",
     "a", "b", "c", "d", "e", "f", "g", "h", "i", "j", "k", "l", "m",
     "n", "o", "p", "q", "r", "s", "t", "u", "v", "w", "x", "y", "z"}
IsSpace(char) == char \in {" ", "U+0009", NL}
IsDigit(char) == char \in Digits
IsAlpha(char) == char \in Letters

\* the characters of the sources LexSources
LexChars == {"a", "1", " ", NL, "#", QUOTE, "{", "}", BACKSLASH}

\* the characters of all sources of the model
Chars == LexChars \cup Digits \cup Letters \cup {"_", "U+0009"}

LexSources == UNION { [1..n -> LexChars] : n \in 0..MaxSrcLen }

NoLex == [pc |-> "idle", source |-> <<>>, position |-> 0, line |-> 1, column |-> 1,
          tokens |-> <<>>]

\* Token(type, value, line, column), appended by the call that began at
\* position `at` and left self.position at `end`
LexToken(l, type, value, end) ==
    [type |-> type, value |-> value, line |-> l.line, column |-> l.column,
     at |-> l.position, end |-> end]

\* a _tokenize_* call that consumed the characters up to `end` and appended
\* one token: column advances with position
Appends(l, type, value, end) ==
    [l EXCEPT !.tokens = Append(@, LexToken(l, type, value, end)),
              !.position = end,
              !.column = @ + (end - l.position)]

\* the first position from pos on whose character is not in `chars`, or the
\* end of the source
RECURSIVE Scan(_, _, _)
Scan(src, pos, chars) ==
    IF pos < Len(src) /\ src[pos + 1] \in chars THEN Scan(src, pos + 1, chars) ELSE pos

\* Lexer(source): __init__ up to the call of _tokenize
LexStart ==
    /\ lex.pc = "idle"
    /\ \E src \in LexSources : lex' = [NoLex EXCEPT !.pc = "run", !.source = src]
    /\ UNCHANGED << bytecode, current_press_time, current_interkey_time, counter_index,
                    loop_stack, source, tokens, frames, pc, exc, result, emitted, calls,
                    history, disVars, usbVars, cliVars >>

\* one iteration of the loop of _tokenize with the character `char`
AtChar(char) ==
    /\ lex.pc = "run"
    /\ lex.position < Len(lex.source)
    /\ lex.source[lex.position + 1] = char

Becomes(l) ==
    /\ lex' = l
    /\ UNCHANGED << bytecode, current_press_time, current_interkey_time, counter_index,
                    loop_stack, source, tokens, frames, pc, exc, result, emitted, calls,
                    history, disVars, usbVars, cliVars >>

\* whitespace: a newline starts a line, any other moves one column on
LexSpace ==
    \E char \in { c \in Chars : IsSpace(c) } :
       /\ AtChar(char)
       /\ Becomes(IF char = NL
                  THEN [lex EXCEPT !.line = @ + 1, !.column = 1, !.position = @ + 1]
                  ELSE [lex EXCEPT !.column = @ + 1, !.position = @ + 1])

\* _tokenize_comment: up to the end of the line
LexComment ==
    /\ AtChar("#")
    /\ LET end == Scan(lex.source, lex.position, Chars \ {NL})
       IN  Becomes(Appends(lex, "COMMENT", SubSeq(lex.source, lex.position + 1, end), end))

LexBrace ==
    \E char \in {"{", "}"} :
       /\ AtChar(char)
       /\ Becomes(Appends(lex, IF char = "{" THEN "BRACE_OPEN" ELSE "BRACE_CLOSE",
                          <<char>>, lex.position + 1))

\* the loop of _tokenize_string from pos on: the position it stops at (the
\* closing quote or the end of the source) and the string it built
RECURSIVE StringBody(_, _, _)
StringBody(src, pos, string) ==
    IF pos >= Len(src) \/ src[pos + 1] = QUOTE THEN [position |-> pos, string |-> string]
    ELSE IF src[pos + 1] = BACKSLASH
    THEN IF pos + 1 < Len(src)
         THEN LET escape_char == src[pos + 2]
              IN  StringBody(src, pos + 2,
                     string \o (IF escape_char = "t" THEN <<"U+0009">>
                                ELSE IF escape_char = "n" THEN <<NL>>
                                ELSE IF escape_char = BACKSLASH THEN <<BACKSLASH>>
                                ELSE IF escape_char = QUOTE THEN <<QUOTE>>
                                ELSE <<BACKSLASH, escape_char>>))
         ELSE [position |-> pos + 1, string |-> Append(string, BACKSLASH)]
    ELSE StringBody(src, pos + 1, Append(string, src[pos + 1]))

\* _tokenize_string: every character of the literal, a newline too, moves
\* one column on; the line is not touched
LexString ==
    /\ AtChar(QUOTE)
    /\ LET body == StringBody(lex.source, lex.position + 1, <<>>)
       IN  IF body.position >= Len(lex.source)
           THEN Becomes([lex EXCEPT !.pc = "raised"])
           ELSE Becomes(Appends(lex, "STRING", body.string, body.position + 1))

LexNumber ==
    \E char \in Digits :
       /\ AtChar(char)
       /\ LET end == Scan(lex.source, lex.position, Digits)
          IN  Becomes(Appends(lex, "NUMBER", SubSeq(lex.source, lex.position + 1, end), end))

CommandWords ==
    { <<"p", "r", "e", "s", "s", "_", "t", "i", "m", "e">>,
      <<"i", "n", "t", "e", "r", "k", "e", "y", "_", "t", "i", "m", "e">>,
      <<"k", "e", "y", "d", "n">>, <<"k", "e", "y", "u", "p">>,
      <<"p", "r", "e", "s", "s">>, <<"t", "y", "p", "e">>,
      <<"r", "e", "p", "e", "a", "t">>, <<"p", "a", "u", "s", "e">> }

IdentifierType(identifier) ==
    IF identifier \in CommandWords THEN "COMMAND"
    ELSE IF Len(identifier) >= 2 /\ identifier[1] = "M" /\ identifier[2] = "_"
    THEN "MODIFIER" ELSE "KEY"

LexIdentifier ==
    \E char \in { c \in Chars : IsAlpha(c) \/ c = "_" } :
       /\ AtChar(char)
       /\ LET end == Scan(lex.source, lex.position,
                          { c \in Chars : IsAlpha(c) \/ IsDigit(c) \/ c = "_" })
              identifier == SubSeq(lex.source, lex.position + 1, end)
          IN  Becomes(Appends(lex, IdentifierType(identifier), identifier, end))

\* any other character: CompileError("Unexpected character")
LexUnexpected ==
    \E char \in { c \in Chars :
                     ~IsSpace(c) /\ ~IsDigit(c) /\ ~IsAlpha(c)
                     /\ c \notin {"#", "{", "}", QUOTE, "_"} } :
       /\ AtChar(char)
       /\ Becomes([lex EXCEPT !.pc = "raised"])

\* the end of the source: the EOF token
LexEof ==
    /\ lex.pc = "run"
    /\ lex.position >= Len(lex.source)
    /\ Becomes([Appends(lex, "EOF", <<>>, lex.position) EXCEPT !.pc = "done"])


(***************************************************************************)
(* The text `press K` for the names K of Lexer.KEY_MAP.  Spelling gives    *)
(* the characters of the word `press` and of every name of the table.      *)
(***************************************************************************)
Spelling ==
    ("press" :> <<"p", "r", "e", "s", "s">>) @@ ("A" :> <<"A">>) @@
    ("B" :> <<"B">>) @@ ("C" :> <<"C">>) @@ ("D" :> <<"D">>) @@
    ("E" :> <<"E">>) @@ ("F" :> <<"F">>) @@ ("G" :> <<"G">>) @@
    ("H" :> <<"H">>) @@ ("I" :> <<"I">>) @@ ("J" :> <<"J">>) @@
    ("K" :> <<"K">>) @@ ("L" :> <<"L">>) @@ ("M" :> <<"M">>) @@
    ("N" :> <<"N">>) @@ ("O" :> <<"O">>) @@ ("P" :> <<"P">>) @@
    ("Q" :> <<"Q">>) @@ ("R" :> <<"R">>) @@ ("S" :> <<"S">>) @@
    ("T" :> <<"T">>) @@ ("U" :> <<"U">>) @@ ("V" :> <<"V">>) @@
    ("W" :> <<"W">>) @@ ("X" :> <<"X">>) @@ ("Y" :> <<"Y">>) @@
    ("Z" :> <<"Z">>) @@ ("1" :> <<"1">>) @@ ("2" :> <<"2">>) @@
    ("3" :> <<"3">>) @@ ("4" :> <<"4">>) @@ ("5" :> <<"5">>) @@
    ("6" :> <<"6">>) @@ ("7" :> <<"7">>) @@ ("8" :> <<"8">>) @@
    ("9" :> <<"9">>) @@ ("0" :> <<"0">>) @@
    ("ENTER" :> <<"E", "N", "T", "E", "R">>) @@
    ("ESCAPE" :> <<"E", "S", "C", "A", "P", "E">>) @@
    ("BACKSPACE" :> <<"B", "A", "C", "K", "S", "P", "A", "C", "E">>) @@
    ("TAB" :> <<"T", "A", "B">>) @@
    ("SPACE" :> <<"S", "P", "A", "C", "E">>) @@
    ("MINUS" :> <<"M", "I", "N", "U", "S">>) @@
    ("EQUAL" :> <<"E", "Q", "U", "A", "L">>) @@
    ("LEFTBRACE" :> <<"L", "E", "F", "T", "B", "R", "A", "C", "E">>) @@
    ("RIGHTBRACE" :> <<"R", "I", "G", "H", "T", "B", "R", "A", "C", "E">>) @@
    ("BACKSLASH" :> <<"B", "A", "C", "K", "S", "L", "A", "S", "H">>) @@
    ("NONUS_HASH" :> <<"N", "O", "N", "U", "S", "_", "H", "A", "S", "H">>) @@
    ("SEMICOLON" :> <<"S", "E", "M", "I", "C", "O", "L", "O", "N">>) @@
    ("APOSTROPHE" :> <<"A", "P", "O", "S", "T", "R", "O", "P", "H", "E">>) @@
    ("GRAVE" :> <<"G", "R", "A", "V", "E">>) @@
    ("COMMA" :> <<"C", "O", "M", "M", "A">>) @@
    ("DOT" :> <<"D", "O", "T">>) @@
    ("SLASH" :> <<"S", "L", "A", "S", "H">>) @@
    ("CAPSLOCK" :> <<"C", "A", "P", "S", "L", "O", "C", "K">>) @@
    ("F1" :> <<"F", "1">>) @@ ("F2" :> <<"F", "2">>) @@
    ("F3" :> <<"F", "3">>) @@ ("F4" :> <<"F", "4">>) @@
    ("F5" :> <<"F", "5">>) @@ ("F6" :> <<"F", "6">>) @@
    ("F7" :> <<"F", "7">>) @@ ("F8" :> <<"F", "8">>) @@
    ("F9" :> <<"F", "9">>) @@ ("F10" :> <<"F", "1", "0">>) @@
    ("F11" :> <<"F", "1", "1">>) @@ ("F12" :> <<"F", "1", "2">>) @@
    ("UP" :> <<"U", "P">>) @@ ("DOWN" :> <<"D", "O", "W", "N">>) @@
    ("LEFT" :> <<"L", "E", "F", "T">>) @@
    ("RIGHT" :> <<"R", "I", "G", "H", "T">>) @@
    ("NUMLOCK" :> <<"N", "U", "M", "L", "O", "C", "K">>) @@
    ("KP_SLASH" :> <<"K", "P", "_", "S", "L", "A", "S", "H">>) @@
    ("KP_ASTERISK" :> <<"K", "P", "_", "A", "S", "T", "E", "R", "I", "S", "K">>) @@
    ("KP_MINUS" :> <<"K", "P", "_", "M", "I", "N", "U", "S">>) @@
    ("KP_PLUS" :> <<"K", "P", "_", "P", "L", "U", "S">>) @@
    ("KP_ENTER" :> <<"K", "P", "_", "E", "N", "T", "E", "R">>) @@
    ("KP_1" :> <<"K", "P", "_", "1">>) @@
    ("KP_2" :> <<"K", "P", "_", "2">>) @@
    ("KP_3" :> <<"K", "P", "_", "3">>) @@
    ("KP_4" :> <<"K", "P", "_", "4">>) @@
    ("KP_5" :> <<"K", "P", "_", "5">>) @@
    ("KP_6" :> <<"K", "P", "_", "6">>) @@
    ("KP_7" :> <<"K", "P", "_", "7">>) @@
    ("KP_8" :> <<"K", "P", "_", "8">>) @@
    ("KP_9" :> <<"K", "P", "_", "9">>) @@
    ("KP_0" :> <<"K", "P", "_", "0">>) @@
    ("KP_DOT" :> <<"K", "P", "_", "D", "O", "T">>) @@
    ("SCROLLLOCK" :> <<"S", "C", "R", "O", "L", "L", "L", "O", "C", "K">>) @@
    ("PAUSE" :> <<"P", "A", "U", "S", "E">>) @@
    ("INSERT" :> <<"I", "N", "S", "E", "R", "T">>) @@
    ("HOME" :> <<"H", "O", "M", "E">>) @@
    ("PAGEUP" :> <<"P", "A", "G", "E", "U", "P">>) @@
    ("DELETE" :> <<"D", "E", "L", "E", "T", "E">>) @@
    ("END" :> <<"E", "N", "D">>) @@
    ("PAGEDOWN" :> <<"P", "A", "G", "E", "D", "O", "W", "N">>) @@
    ("APPLICATION" :> <<"A", "P", "P", "L", "I", "C", "A", "T", "I", "O", "N">>) @@
    ("MENU" :> <<"M", "E", "N", "U">>) @@
    ("HENKAN" :> <<"H", "E", "N", "K", "A", "N">>) @@
    ("MUHENKAN" :> <<"M", "U", "H", "E", "N", "K", "A", "N">>) @@
    ("KATAKANAHIRAGANA" :> <<"K", "A", "T", "A", "K", "A", "N", "A", "H", "I", "R", "A", "G", "A", "N", "A">>) @@
    ("HANGEUL" :> <<"H", "A", "N", "G", "E", "U", "L">>) @@
    ("HANJA" :> <<"H", "A", "N", "J", "A">>) @@
    ("POWER" :> <<"P", "O", "W", "E", "R">>) @@
    ("SLEEP" :> <<"S", "L", "E", "E", "P">>) @@
    ("WAKE" :> <<"W", "A", "K", "E">>) @@
    ("LEFTCTRL" :> <<"L", "E", "F", "T", "C", "T", "R", "L">>) @@
    ("LEFTSHIFT" :> <<"L", "E", "F", "T", "S", "H", "I", "F", "T">>) @@
    ("LEFTALT" :> <<"L", "E", "F", "T", "A", "L", "T">>) @@
    ("LEFTMETA" :> <<"L", "E", "F", "T", "M", "E", "T", "A">>) @@
    ("RIGHTCTRL" :> <<"R", "I", "G", "H", "T", "C", "T", "R", "L">>) @@
    ("RIGHTSHIFT" :> <<"R", "I", "G", "H", "T", "S", "H", "I", "F", "T">>) @@
    ("RIGHTALT" :> <<"R", "I", "G", "H", "T", "A", "L", "T">>) @@
    ("RIGHTMETA" :> <<"R", "I", "G", "H", "T", "M", "E", "T", "A">>) @@
    ("MEDIA_PLAY_PAUSE" :> <<"M", "E", "D", "I", "A", "_", "P", "L", "A", "Y", "_", "P", "A", "U", "S", "E">>) @@
    ("MEDIA_STOP" :> <<"M", "E", "D", "I", "A", "_", "S", "T", "O", "P">>) @@
    ("MEDIA_PREVIOUS" :> <<"M", "E", "D", "I", "A", "_", "P", "R", "E", "V", "I", "O", "U", "S">>) @@
    ("MEDIA_NEXT" :> <<"M", "E", "D", "I", "A", "_", "N", "E", "X", "T">>) @@
    ("MEDIA_VOLUME_UP" :> <<"M", "E", "D", "I", "A", "_", "V", "O", "L", "U", "M", "E", "_", "U", "P">>) @@
    ("MEDIA_VOLUME_DOWN" :> <<"M", "E", "D", "I", "A", "_", "V", "O", "L", "U", "M", "E", "_", "D", "O", "W", "N">>) @@
    ("MEDIA_MUTE" :> <<"M", "E", "D", "I", "A", "_", "M", "U", "T", "E">>) @@
    ("MEDIA_EJECT" :> <<"M", "E", "D", "I", "A", "_", "E", "J", "E", "C", "T">>) @@
    ("MEDIA_RECORD" :> <<"M", "E", "D", "I", "A", "_", "R", "E", "C", "O", "R", "D">>) @@
    ("MEDIA_REWIND" :> <<"M", "E", "D", "I", "A", "_", "R", "E", "W", "I", "N", "D">>) @@
    ("MEDIA_FAST_FORWARD" :> <<"M", "E", "D", "I", "A", "_", "F", "A", "S", "T", "_", "F", "O", "R", "W", "A", "R", "D">>) @@
    ("CALCULATOR" :> <<"C", "A", "L", "C", "U", "L", "A", "T", "O", "R">>) @@
    ("MYCOMPUTER" :> <<"M", "Y", "C", "O", "M", "P", "U", "T", "E", "R">>) @@
    ("WWW_SEARCH" :> <<"W", "W", "W", "_", "S", "E", "A", "R", "C", "H">>) @@
    ("WWW_HOME" :> <<"W", "W", "W", "_", "H", "O", "M", "E">>) @@
    ("WWW_BACK" :> <<"W", "W", "W", "_", "B", "A", "C", "K">>) @@
    ("WWW_FORWARD" :> <<"W", "W", "W", "_", "F", "O", "R", "W", "A", "R", "D">>) @@
    ("WWW_STOP" :> <<"W", "W", "W", "_", "S", "T", "O", "P">>) @@
    ("WWW_REFRESH" :> <<"W", "W", "W", "_", "R", "E", "F", "R", "E", "S", "H">>) @@
    ("WWW_FAVORITES" :> <<"W", "W", "W", "_", "F", "A", "V", "O", "R", "I", "T", "E", "S">>) @@
    ("MAIL" :> <<"M", "A", "I", "L">>) @@
    ("COMPOSE" :> <<"C", "O", "M", "P", "O", "S", "E">>) @@
    ("BROWSER_BACK" :> <<"B", "R", "O", "W", "S", "E", "R", "_", "B", "A", "C", "K">>) @@
    ("BROWSER_FORWARD" :> <<"B", "R", "O", "W", "S", "E", "R", "_", "F", "O", "R", "W", "A", "R", "D">>) @@
    ("BROWSER_REFRESH" :> <<"B", "R", "O", "W", "S", "E", "R", "_", "R", "E", "F", "R", "E", "S", "H">>) @@
    ("BROWSER_STOP" :> <<"B", "R", "O", "W", "S", "E", "R", "_", "S", "T", "O", "P">>) @@
    ("BROWSER_SEARCH" :> <<"B", "R", "O", "W", "S", "E", "R", "_", "S", "E", "A", "R", "C", "H">>) @@
    ("BROWSER_FAVORITES" :> <<"B", "R", "O", "W", "S", "E", "R", "_", "F", "A", "V", "O", "R", "I", "T", "E", "S">>) @@
    ("BROWSER_HOME" :> <<"B", "R", "O", "W", "S", "E", "R", "_", "H", "O", "M", "E">>) @@
    ("GAME" :> <<"G", "A", "M", "E">>) @@
    ("CHAT" :> <<"C", "H", "A", "T">>) @@
    ("ZOOM" :> <<"Z", "O", "O", "M">>) @@
    ("PRESENTATION" :> <<"P", "R", "E", "S", "E", "N", "T", "A", "T", "I", "O", "N">>) @@
    ("SPREADSHEET" :> <<"S", "P", "R", "E", "A", "D", "S", "H", "E", "E", "T">>) @@
    ("LANGUAGE" :> <<"L", "A", "N", "G", "U", "A", "G", "E">>)

\* the text "press K"
PressText(K) == Spelling["press"] \o <<" ">> \o Spelling[K]

\* the str of a sequence of characters
Word(chars) ==
    IF \E w \in DOMAIN Spelling : Spelling[w] = chars
    THEN CHOOSE w \in DOMAIN Spelling : Spelling[w] = chars
    ELSE ""

\* int(value) of a NUMBER token
RECURSIVE Decimal(_)
Decimal(chars) ==
    IF chars = <<>> THEN 0
    ELSE 10 * Decimal(SubSeq(chars, 1, Len(chars) - 1))
         + (CHOOSE d \in 0..9 : ToString(d) = chars[Len(chars)])

\* the token list the Compiler works on, from the tokens of the Lexer
CompilerToken(t) ==
    IF t.type = "NUMBER" THEN NumTok(Decimal(t.value))
    ELSE IF t.type = "EOF" THEN EofTok
    ELSE Tok(t.type, Word(t.value), 0, <<>>)

\* Lexer(source) on the text `press K`
LexKey ==
    /\ lex.pc = "idle"
    /\ \E K \in DOMAIN KEY_MAP :
          lex' = [NoLex EXCEPT !.pc = "run", !.source = PressText(K)]
    /\ UNCHANGED << bytecode, current_press_time, current_interkey_time, counter_index,
                    loop_stack, source, tokens, frames, pc, exc, result, emitted, calls,
                    history, disVars, usbVars, cliVars >>

\* compiler.compile(source) on the text the Lexer has tokenized
CompileLexed ==
    /\ pc = "idle"
    /\ calls = 0
    /\ lex.pc = "done"
    /\ Call([i \in 1..(Len(lex.tokens) - 1) |-> CompilerToken(lex.tokens[i])])
\* what session.get / post / delete gives when it raises RequestException
RequestException == 0

\* what session.get / post / delete gives: a response with a status code,
\* or a requests.exceptions.RequestException
HttpStatuses == {200, 404, 500, RequestException}

Request(method, path, arg, body) ==
    [method |-> method, path |-> path, arg |-> arg, body |-> body]

\* one operation of ODKeyConfigHttp that sent `requests` and returned ret
HttpCall(op, requests, ret) ==
    /\ http_pc = "idle"
    /\ http_pc' = "done"
    /\ http_op' = op
    /\ http_log' = requests
    /\ http_ret' = ret
    /\ UNCHANGED << cli, usbVars, compilerVars, disVars >>

Said(ok, msg) == [Returns(ok) EXCEPT !.msg = msg]

\* the `if response.status_code == 200 ... else ...` and `except
\* RequestException` of the operations that return a bool
BoolResult(status) ==
    IF status = 200 THEN Said(TRUE, "successfully")
    ELSE IF status = RequestException THEN Said(FALSE, "failed: exception")
    ELSE Said(FALSE, "failed: HTTP status")

HttpFindDevice ==
    \E op \in Args("http", "find_device", {[NoOp EXCEPT !.name = "find_device"]}),
       status \in HttpStatuses :
       HttpCall(op,
                << [request |-> Request("GET", "/api/status", "", 0), status |-> status] >>,
                IF status = 200 THEN Said(TRUE, "Connected")
                ELSE IF status = RequestException THEN Said(FALSE, "Connection failed")
                ELSE Said(FALSE, "Device not responding"))

HttpUploadProgram ==
    \E op \in Args("http", "upload_program", UploadArgs), status \in HttpStatuses :
       LET B == op.program_data
           target == op.target
       IN  IF target \notin {"flash", "ram"}
           THEN HttpCall(op, <<>>, Said(FALSE, "Invalid target"))
           ELSE HttpCall(op,
                   << [request |-> Request("POST", "/api/program/", target, B.len),
                       status |-> status] >>,
                   BoolResult(status))

\* bodies a device gives for a stored program
HttpPrograms == { Pattern(n) : n \in {0, 1, 61} }

\* what download_program returns for a response (None when it is not 200)
DownloadResult(status, content) ==
    IF status = 200 THEN ReturnsData(content)
    ELSE IF status = 404 THEN Said(FALSE, "No program found on device")
    ELSE IF status = RequestException THEN Said(FALSE, "Download failed: exception")
    ELSE Said(FALSE, "Download failed: HTTP status")

HttpDownloadProgram ==
    \E op \in Args("http", "download_program", DownloadArgs),
       status \in HttpStatuses, content \in HttpPrograms :
       LET target == op.target
       IN  IF target \notin {"flash", "ram"}
           THEN HttpCall(op, <<>>, Said(FALSE, "Invalid target"))
           ELSE HttpCall(op,
                   << [request |-> Request("GET", "/api/program/", target, 0),
                       status |-> status] >>,
                   DownloadResult(status, content))

HttpDeleteProgram ==
    \E op \in Args("http", "delete_program", {[NoOp EXCEPT !.name = "delete_program"]}),
       status \in HttpStatuses :
       HttpCall(op,
                << [request |-> Request("DELETE", "/api/program/", "flash", 0),
                    status |-> status] >>,
                BoolResult(status))

\* nvs_set: the blob as the body, the other types as JSON; no check of the
\* key, the type or the value before the request
HttpNvsSet ==
    \E op \in Args("http", "nvs_set", NvsSetArgs), status \in HttpStatuses :
       HttpCall(op,
                << [request |-> Request("POST", "/api/nvs/", op.key,
                                        IF op.value_type = "blob" THEN Len(op.blob)
                                        ELSE IF op.value_type = "string"
                                        THEN Len(op.str.utf8) ELSE 1),
                    status |-> status] >>,
                BoolResult(status))

\* bodies a device gives for a stored value: a blob, a JSON object, a JSON
\* object without "type", or something that is not JSON
HttpValues ==
    { [content_type |-> "application/octet-stream", json |-> FALSE, type |-> "",
       num |-> 0, data |-> Pattern(3)],
      [content_type |-> "application/json", json |-> TRUE, type |-> "u8",
       num |-> 7, data |-> <<>>],
      [content_type |-> "application/json", json |-> TRUE, type |-> "unknown",
       num |-> 0, data |-> <<>>],
      [content_type |-> "text/html", json |-> FALSE, type |-> "", num |-> 0,
       data |-> <<>>] }

\* what nvs_get returns for a response ((False, None, None) when it is not
\* 200 or cannot be read)
NvsGetResult(status, body) ==
    IF status = 200
    THEN IF body.content_type = "application/octet-stream"
         THEN ReturnsValue("blob", 0, body.data)
         ELSE IF body.json THEN ReturnsValue(body.type, body.num, body.data)
         ELSE Said(FALSE, "Invalid JSON response")
    ELSE IF status = 404 THEN Said(FALSE, "NVS key not found")
    ELSE IF status = RequestException THEN Said(FALSE, "Get failed: exception")
    ELSE Said(FALSE, "Get failed: HTTP status")

HttpNvsGet ==
    \E op \in Args("http", "nvs_get", NvsGetArgs), status \in HttpStatuses,
       body \in HttpValues :
       HttpCall(op,
                << [request |-> Request("GET", "/api/nvs/", op.key, 0), status |-> status] >>,
                NvsGetResult(status, body))

HttpNvsDelete ==
    \E op \in Args("http", "nvs_delete", NvsDeleteArgs), status \in HttpStatuses :
       HttpCall(op,
                << [request |-> Request("DELETE", "/api/nvs/", op.key, 0),
                    status |-> status] >>,
                BoolResult(status))

HttpExecuteProgram ==
    \E op \in Args("http", "execute_program", ExecuteArgs), status \in HttpStatuses :
       LET target == op.target
       IN  IF target \notin {"flash", "ram"}
           THEN HttpCall(op, <<>>, Said(FALSE, "Invalid target"))
           ELSE HttpCall(op,
                   << [request |-> Request("POST", "/api/program/execute", target, 0),
                       status |-> status] >>,
                   BoolResult(status))

\* download_logs returns None whatever the response was
HttpDownloadLogs ==
    \E op \in Args("http", "download_logs", {[NoOp EXCEPT !.name = "download_logs"]}),
       status \in HttpStatuses :
       HttpCall(op,
                << [request |-> Request("GET", "/api/logs", "", 0), status |-> status] >>,
                [NoRet EXCEPT !.kind = "return", !.type = "None",
                              !.msg = IF status = 200 THEN ""
                                      ELSE IF status = RequestException
                                      THEN "Log download failed: exception"
                                      ELSE "Log download failed: HTTP status"])

HttpClearLogs ==
    \E op \in Args("http", "clear_logs", {[NoOp EXCEPT !.name = "clear_logs"]}),
       status \in HttpStatuses :
       HttpCall(op,
                << [request |-> Request("DELETE", "/api/logs", "", 0), status |-> status] >>,
                BoolResult(status))

\* the caller has the outcome of the call
HttpReturned ==
    /\ http_pc = "done"
    /\ cli.pc = "none"
    /\ http_pc' = "idle"
    /\ http_op' = NoOp
    /\ http_log' = <<>>
    /\ http_ret' = NoRet
    /\ UNCHANGED << cli, usbVars, compilerVars, disVars >>

(***************************************************************************)
(* The device commands of the command-line interface.  cli.pc is where the *)
(* command stands: "idle" (awaiting a command), "find" (transport object   *)
(* created), "call" (at the transport operation cli.call), "exit" (the     *)
(* command returned cli.exit).  cli.closes counts the calls of close(),    *)
(* cli.failed records that a step of the command failed.                   *)
(***************************************************************************)
PROGRAM_FLASH_PAGE_SIZE == 4096

\* the limits check_program_size imports from config.constants
CONSTANTS_PROGRAM_FLASH_MAX_SIZE == (1024 * 1024) - PROGRAM_FLASH_PAGE_SIZE

CONSTANTS_PROGRAM_RAM_MAX_SIZE == 1024 * 1024

Interfaces == {"usb", "http"}

\* --target has choices ["ram", "flash"]
CliTargets == {"ram", "flash"}

CliPrograms ==
    { [len |-> n, seed |-> 3] :
         n \in {1, 61, PROGRAM_RAM_MAX_SIZE + 1, CONSTANTS_PROGRAM_FLASH_MAX_SIZE + 1,
                CONSTANTS_PROGRAM_RAM_MAX_SIZE + 1} }

CliKeys == { Str(1, 0), Str(MAX_KEY_CHARS + 1, 0) }

CliNvsSetArgs ==
    { op \in NvsSetArgs :
         /\ op.key \in CliKeys
         /\ \/ op.value_type = "u8"
            \/ op.value_type = "string" /\ Len(op.str.utf8) \in {5, MAX_VALUE_BYTES} }

\* saving or printing what the operation gave: not asked for, done, or raising
Posts == {"none", "ok", "fails"}

\* the command line awaits a command
Shell == [NoCli EXCEPT !.pc = "idle"]

\* check_program_size
ProgramFits(B, target) ==
    B.len <= (IF target = "ram" THEN CONSTANTS_PROGRAM_RAM_MAX_SIZE
              ELSE CONSTANTS_PROGRAM_FLASH_MAX_SIZE)

\* a command starts in a new process: no device is open, no call is under way
Starts(c) ==
    /\ usb_pc = "idle"
    /\ http_pc = "idle"
    /\ device = "none"
    /\ cli' = c
    /\ UNCHANGED << http_op, http_pc, http_ret, http_log, usbVars, compilerVars, disVars >>

\* create_config(args) has returned the transport object
Configured(command, interface, call) ==
    [Shell EXCEPT !.pc = "find", !.command = command, !.interface = interface,
                  !.call = call, !.config = "open"]

\* the command returns code; the `finally` of its try calls config.close()
Exits(c, code, failed) ==
    [c EXCEPT !.pc = "exit", !.exit = code, !.failed = c.failed \/ failed,
              !.closes = @ + 1, !.config = "closed"]

\* upload_command: load_program_data and check_program_size come before
\* create_config and end the command with 1 when they raise
UploadCommand ==
    /\ cli.pc = "idle"
    /\ \E interface \in Interfaces, target \in CliTargets, B \in CliPrograms,
          execute \in BOOLEAN, loads \in BOOLEAN :
          LET op == [NoOp EXCEPT !.name = "upload_program", !.program_data = B,
                                 !.target = target]
          IN  Starts(IF loads /\ ProgramFits(B, target)
                     THEN [Configured("upload", interface, op) EXCEPT !.execute = execute]
                     ELSE [Shell EXCEPT !.pc = "exit", !.command = "upload",
                                        !.interface = interface,
                                        !.call = IF loads THEN op ELSE NoOp,
                                        !.failed = TRUE, !.exit = 1])

DownloadCommand ==
    /\ cli.pc = "idle"
    /\ \E interface \in Interfaces, target \in CliTargets, post \in Posts :
          Starts([Configured("download", interface,
                             [NoOp EXCEPT !.name = "download_program", !.target = target])
                    EXCEPT !.post = post])

ExecuteCommand ==
    /\ cli.pc = "idle"
    /\ \E interface \in Interfaces, target \in CliTargets :
          Starts(Configured("execute", interface,
                            [NoOp EXCEPT !.name = "execute_program", !.target = target]))

\* nvs_set_command; parses: parse_nvs_value returns the value
NvsSetCommand ==
    /\ cli.pc = "idle"
    /\ \E interface \in Interfaces, op \in CliNvsSetArgs, parses \in BOOLEAN :
          Starts([Configured("nvs-set", interface, op) EXCEPT !.parses = parses])

NvsGetCommand ==
    /\ cli.pc = "idle"
    /\ \E interface \in Interfaces, key \in CliKeys, post \in Posts :
          Starts([Configured("nvs-get", interface,
                             [NoOp EXCEPT !.name = "nvs_get", !.key = key])
                    EXCEPT !.post = post])

NvsDeleteCommand ==
    /\ cli.pc = "idle"
    /\ \E interface \in Interfaces, key \in CliKeys :
          Starts(Configured("nvs-delete", interface,
                            [NoOp EXCEPT !.name = "nvs_delete", !.key = key]))

LogDownloadCommand ==
    /\ cli.pc = "idle"
    /\ \E interface \in Interfaces, post \in Posts :
          Starts([Configured("log", interface, [NoOp EXCEPT !.name = "download_logs"])
                    EXCEPT !.post = post])

LogClearCommand ==
    /\ cli.pc = "idle"
    /\ \E interface \in Interfaces :
          Starts(Configured("log-clear", interface, [NoOp EXCEPT !.name = "clear_logs"]))

\* the methods of the two transport classes
UsbOperations ==
    {"find_device", "send_command", "upload_program", "download_program",
     "execute_program", "nvs_set_int", "nvs_set_str", "nvs_set_blob", "nvs_set",
     "nvs_get", "nvs_delete", "close"}

HttpOperations ==
    {"find_device", "upload_program", "download_program", "delete_program", "nvs_set",
     "nvs_get", "nvs_delete", "execute_program", "download_logs", "clear_logs", "close"}

Operations(interface) == IF interface = "usb" THEN UsbOperations ELSE HttpOperations

\* the command catches exception e, prints it and returns 1
Catches(c, e) == Exits([c EXCEPT !.raised = e], 1, TRUE)

\* what follows `if args.interface == "usb" and not config.find_device()`:
\* parse_nvs_value raising, open(args.output) raising, a method the
\* transport class does not have (AttributeError), or the transport operation
BeforeCall(c) ==
    IF c.command = "nvs-set" /\ ~c.parses THEN Catches(c, "ValueError")
    ELSE IF c.command = "log" /\ c.post = "fails" THEN Catches(c, "OSError")
    ELSE IF c.call.name \notin Operations(c.interface) THEN Catches(c, "AttributeError")
    ELSE [c EXCEPT !.pc = "call"]

\* faulty variant of CliFindDevice: the early `return 1` after a failing
\* find_device leaves the command without close()
CliFindDeviceLeavesOpen ==
    /\ cli.pc = "find"
    /\ \E found \in BOOLEAN :
          cli' = IF cli.interface = "usb" /\ ~found
                 THEN [cli EXCEPT !.pc = "exit", !.exit = 1, !.failed = TRUE]
                 ELSE BeforeCall(cli)
    /\ device' = IF cli.interface = "usb" /\ cli'.pc = "call" THEN "open" ELSE "none"
    /\ UNCHANGED << usb_op, usb_pc, usb_local, wire, usb_ret, usb_sc, acks, reads, mock,
                    last_ok, http_op, http_pc, http_ret, http_log, compilerVars, disVars >>

\* find_device on the USB interface; the HTTP interface goes straight on
CliFindDevice ==
    /\ cli.pc = "find"
    /\ \E found \in BOOLEAN :
          cli' = IF cli.interface = "usb" /\ ~found THEN Exits(cli, 1, TRUE)
                 ELSE BeforeCall(cli)
    /\ device' = IF cli.interface = "usb" /\ cli'.pc = "call" THEN "open" ELSE "none"
    /\ UNCHANGED << usb_op, usb_pc, usb_local, wire, usb_ret, usb_sc, acks, reads, mock,
                    last_ok, http_op, http_pc, http_ret, http_log, compilerVars, disVars >>

\* the outcome of the transport operation the command stands at
CallEnded == IF cli.interface = "usb" THEN usb_pc = "done" ELSE http_pc = "done"

CallRet == IF cli.interface = "usb" THEN usb_ret ELSE http_ret

\* the operation did what it was called for
CallSucceeded ==
    IF cli.call.name = "download_logs" THEN http_log[1].status = 200
    ELSE CallRet.kind = "return" /\ CallRet.ok

\* faulty variant of AfterCall: --execute executes whatever upload_program
\* returned
AfterCallExecutesAnyway(c) ==
    IF c.call.name = "download_logs" THEN Exits(c, 0, ~CallSucceeded)
    ELSE IF c.call.name = "upload_program" /\ c.execute
    THEN [c EXCEPT !.call = [NoOp EXCEPT !.name = "execute_program",
                                         !.target = c.call.target]]
    ELSE IF ~(CallRet.kind = "return" /\ CallRet.ok) THEN Exits(c, 1, TRUE)
    ELSE IF c.post = "fails" THEN Exits(c, 1, TRUE)
    ELSE Exits(c, 0, FALSE)

\* the command after the transport operation returned or raised
AfterCall(c) ==
    IF c.call.name = "download_logs" THEN Exits(c, 0, ~CallSucceeded)
    ELSE IF ~(CallRet.kind = "return" /\ CallRet.ok) THEN Exits(c, 1, TRUE)
    ELSE IF c.call.name = "upload_program" /\ c.execute
    THEN [c EXCEPT !.call = [NoOp EXCEPT !.name = "execute_program",
                                         !.target = c.call.target]]
    ELSE IF c.post = "fails" THEN Exits(c, 1, TRUE)
    ELSE Exits(c, 0, FALSE)

CliResume ==
    /\ cli.pc = "call"
    /\ CallEnded
    /\ cli' = AfterCall(cli)
    /\ device' = IF cli'.pc = "exit" THEN "none" ELSE device
    /\ usb_pc' = "idle"
    /\ usb_op' = NoOp
    /\ usb_local' = NoLocal
    /\ wire' = <<>>
    /\ acks' = <<>>
    /\ reads' = <<>>
    /\ usb_ret' = NoRet
    /\ http_pc' = "idle"
    /\ http_op' = NoOp
    /\ http_log' = <<>>
    /\ http_ret' = NoRet
    /\ UNCHANGED << usb_sc, mock, last_ok, compilerVars, disVars >>

\* the process has ended
CliDone ==
    /\ cli.pc = "exit"
    /\ cli' = Shell
    /\ UNCHANGED << http_op, http_pc, http_ret, http_log, usbVars, compilerVars, disVars >>

InitCompiler ==
    /\ bytecode = <<>>
    /\ current_press_time = DEFAULT_TIME
    /\ current_interkey_time = DEFAULT_TIME
    /\ counter_index = 0
    /\ loop_stack = <<>>
    /\ source = <<>>
    /\ tokens = <<>>
    /\ frames = <<>>
    /\ pc = "idle"
    /\ exc = ""
    /\ result = <<>>
    /\ emitted = <<>>
    /\ calls = 0
    /\ history = <<>>
    /\ lex = NoLex

InitDis ==
    /\ dis_in = <<>>
    /\ dis_pc = 0
    /\ instructions = <<>>
    /\ dis_state = "idle"

InitUsb ==
    /\ device = "none"
    /\ usb_op = NoOp
    /\ usb_pc = "idle"
    /\ usb_local = NoLocal
    /\ wire = <<>>
    /\ usb_ret = NoRet
    /\ usb_sc = "write"
    /\ acks = <<>>
    /\ reads = <<>>
    /\ mock = NoMock
    /\ last_ok = NoLast

InitCli ==
    /\ cli = NoCli
    /\ http_op = NoOp
    /\ http_pc = "idle"
    /\ http_ret = NoRet
    /\ http_log = <<>>

Init == InitCompiler /\ InitDis /\ InitUsb /\ InitCli

\* one compile call on a fresh Compiler, then disassemble of what it returned
Next ==
    \/ Compile
    \/ CompileStep
    \/ Disassemble
    \/ DisassembleStep
    \/ DisassembleReturn

Spec == Init /\ [][Next]_vars

\* several compile calls on one Compiler object
NextReuse ==
    \/ CompileAgain
    \/ CompileStep

SpecReuse == Init /\ [][NextReuse]_vars


\* the operations of ODKeyConfigUsb against a device answering as it likes
NextUsb ==
    \/ FindDevice
    \/ Close
    \/ UploadProgram
    \/ UploadStart
    \/ UploadChunk
    \/ UploadFinish
    \/ DownloadProgram
    \/ DownloadStart
    \/ DownloadChunk
    \/ ExecuteProgram
    \/ ExecuteSend
    \/ NvsSet
    \/ NvsSetStart
    \/ NvsSetData
    \/ NvsSetFinish
    \/ NvsGet
    \/ NvsGetStart
    \/ NvsGetData
    \/ NvsDelete
    \/ NvsDeleteSend
    \/ Returned

SpecUsb == Init /\ [][NextUsb]_vars

\* upload_program and download_program against the test double
InitMock ==
    /\ InitCompiler
    /\ InitDis
    /\ InitCli
    /\ device = "none"
    /\ usb_op = NoOp
    /\ usb_pc = "idle"
    /\ usb_local = NoLocal
    /\ wire = <<>>
    /\ usb_ret = NoRet
    /\ usb_sc = "write"
    /\ acks = <<>>
    /\ reads = <<>>
    /\ mock = [NoMock EXCEPT !.on = TRUE]
    /\ last_ok = NoLast

NextMock ==
    \/ FindDevice
    \/ UploadProgram
    \/ UploadStart
    \/ UploadChunk
    \/ UploadFinish
    \/ DownloadProgram
    \/ DownloadStart
    \/ DownloadChunk
    \/ Returned

SpecMock == InitMock /\ [][NextMock]_vars

\* nvs_set and nvs_get against the test double
NextMockNvs ==
    \/ FindDevice
    \/ NvsSet
    \/ NvsSetStart
    \/ NvsSetData
    \/ NvsSetFinish
    \/ NvsGet
    \/ NvsGetStart
    \/ NvsGetData
    \/ Returned

SpecMockNvs == InitMock /\ [][NextMockNvs]_vars

\* the operations of ODKeyConfigHttp against a server answering as it likes
NextHttp ==
    \/ HttpFindDevice
    \/ HttpUploadProgram
    \/ HttpDownloadProgram
    \/ HttpDeleteProgram
    \/ HttpExecuteProgram
    \/ HttpNvsSet
    \/ HttpNvsGet
    \/ HttpNvsDelete
    \/ HttpDownloadLogs
    \/ HttpClearLogs
    \/ HttpReturned

SpecHttp == Init /\ [][NextHttp]_vars

\* the device commands of the CLI, each on either interface
InitShell ==
    /\ InitCompiler
    /\ InitDis
    /\ InitUsb
    /\ cli = Shell
    /\ http_op = NoOp
    /\ http_pc = "idle"
    /\ http_ret = NoRet
    /\ http_log = <<>>

NextCli ==
    \/ UploadCommand
    \/ DownloadCommand
    \/ ExecuteCommand
    \/ NvsSetCommand
    \/ NvsGetCommand
    \/ NvsDeleteCommand
    \/ LogDownloadCommand
    \/ LogClearCommand
    \/ CliFindDevice
    \/ CliResume
    \/ CliDone
    \/ UploadProgram
    \/ UploadStart
    \/ UploadChunk
    \/ UploadFinish
    \/ DownloadProgram
    \/ DownloadStart
    \/ DownloadChunk
    \/ ExecuteProgram
    \/ ExecuteSend
    \/ NvsSet
    \/ NvsSetStart
    \/ NvsSetData
    \/ NvsSetFinish
    \/ NvsGet
    \/ NvsGetStart
    \/ NvsGetData
    \/ NvsDelete
    \/ NvsDeleteSend
    \/ HttpUploadProgram
    \/ HttpDownloadProgram
    \/ HttpExecuteProgram
    \/ HttpNvsSet
    \/ HttpNvsGet
    \/ HttpNvsDelete
    \/ HttpDownloadLogs
    \/ HttpClearLogs

SpecCli == InitShell /\ [][NextCli]_vars


\* send_command calls on a transport used as a library.  Every step of a
\* call that can be taken is taken at some time: the interpreter runs the
\* call, and the clock of time.time() advances.
NextSend ==
    \/ FindDevice
    \/ Close
    \/ SendCommand
    \/ SendWrite
    \/ SendPoll
    \/ SendRead
    \/ SendTimeout
    \/ SendBlocks
    \/ Returned

SpecSend ==
    /\ Init
    /\ [][NextSend]_vars
    /\ WF_vars(SendWrite)
    /\ WF_vars(SendPoll \/ SendRead \/ SendTimeout)

\* Lexer(source) on the sources of up to MaxSrcLen characters
NextLex ==
    \/ LexStart
    \/ LexSpace
    \/ LexComment
    \/ LexBrace
    \/ LexString
    \/ LexNumber
    \/ LexIdentifier
    \/ LexUnexpected
    \/ LexEof

SpecLex == Init /\ [][NextLex]_vars

\* disassemble on arbitrary byte sequences
NextDis ==
    \/ DisassembleBytes
    \/ DisassembleStep
    \/ DisassembleReturn

SpecDis == Init /\ [][NextDis]_vars

\* the loop of disassemble is one sequential computation: a step that can be
\* taken is taken
SpecDisFair == SpecDis /\ WF_vars(DisassembleStep \/ DisassembleReturn)

\* send_command calls on one open handle whose device answers in its own
\* time
NextLate ==
    \/ FindDevice
    \/ LateCommand
    \/ LateWrite
    \/ DeviceAnswers
    \/ LatePoll
    \/ LateRead
    \/ SendTimeout
    \/ Returned

SpecLate == Init /\ [][NextLate]_vars

\* the operations of ODKeyConfigUsb and send_command on a transport object
\* that is opened, closed, and reopened with or without success
NextClose ==
    \/ FindDevice
    \/ FindDeviceOpenFails
    \/ Close
    \/ SendCommand
    \/ SendWrite
    \/ SendPoll
    \/ SendRead
    \/ SendTimeout
    \/ UploadProgram
    \/ UploadStart
    \/ UploadChunk
    \/ UploadFinish
    \/ DownloadProgram
    \/ DownloadStart
    \/ DownloadChunk
    \/ ExecuteProgram
    \/ ExecuteSend
    \/ NvsSet
    \/ NvsSetStart
    \/ NvsSetData
    \/ NvsSetFinish
    \/ NvsGet
    \/ NvsGetStart
    \/ NvsGetData
    \/ NvsDelete
    \/ NvsDeleteSend
    \/ Returned

SpecClose == Init /\ [][NextClose]_vars

\* compile on the text `press K` for every name K of KEY_MAP
NextKeys ==
    \/ LexKey
    \/ LexSpace
    \/ LexNumber
    \/ LexIdentifier
    \/ LexEof
    \/ CompileLexed
    \/ StmtPress
    \/ Return

SpecKeys == Init /\ [][NextKeys]_vars

\* disassemble on one KEYDN for every modifier byte and key name
NextNames ==
    \/ DisassembleKey
    \/ DisassembleStep
    \/ DisassembleReturn

SpecNames == Init /\ [][NextNames]_vars
(***************************************************************************)
(* Properties of the compiler and the disassembler.                        *)
(***************************************************************************)
IsCmd(tok, v) == tok.type = "COMMAND" /\ tok.value = v

\* number of tokens of the source the compile call has consumed
Consumed == Len(source) + 1 - Len(tokens)

\* the instructions appended by the step just taken
Appended == SubSeq(emitted', Len(emitted) + 1, Len(emitted'))

\* the modifier byte a list of modifier names stands for
ModsValue(names) ==
    LET has(n) == \E i \in 1..Len(names) : names[i] = n
        bit(n) == IF has(n) THEN MODIFIER_MAP[n] ELSE 0
    IN  bit("M_LEFTCTRL") + bit("M_LEFTSHIFT") + bit("M_LEFTALT") + bit("M_LEFTGUI")
          + bit("M_RIGHTCTRL") + bit("M_RIGHTSHIFT") + bit("M_RIGHTALT")
          + bit("M_RIGHTGUI")

\* the key code a rendered key stands for
KeyCodeOf(k) ==
    IF k.name # "" THEN CHOOSE c \in DOMAIN KEY_NAMES : KEY_NAMES[c] = k.name
    ELSE k.hex

\* the instruction (opcode and operand values) a listing line stands for
LineInstr(l) ==
    IF l.mnemonic = "KEYDN"
    THEN KeyInstr(OP_KEYDN, ModsValue(l.mods), [i \in 1..Len(l.keys) |-> KeyCodeOf(l.keys[i])])
    ELSE IF l.mnemonic = "KEYUP"
    THEN KeyInstr(OP_KEYUP, ModsValue(l.mods), [i \in 1..Len(l.keys) |-> KeyCodeOf(l.keys[i])])
    ELSE IF l.mnemonic = "KEYUP_ALL" THEN KeyupAllInstr
    ELSE IF l.mnemonic = "WAIT" THEN WaitInstr(l.operands[1])
    ELSE IF l.mnemonic = "SET_COUNTER" THEN SetCounterInstr(l.operands[1], l.operands[2])
    ELSE IF l.mnemonic = "DEC" THEN DecInstr(l.operands[1])
    ELSE IF l.mnemonic = "JNZ" THEN JnzInstr(l.operands[1])
    ELSE Instr(-1, 0, <<>>, 0, 0)

\* C1: for every source a fresh Compiler compiles successfully, the listing
\* disassemble gives for the returned bytes has one line per instruction the
\* emitter appended, in emission order, with the same opcode and operand
\* values; the first line is at offset 0 and no line is UNKNOWN_OPCODE or
\* "(incomplete)".
C1_RoundTrip ==
    dis_state = "done" =>
        /\ Len(instructions) = Len(emitted)
        /\ \A i \in 1..Len(instructions) :
              /\ ~instructions[i].incomplete
              /\ instructions[i].mnemonic # "UNKNOWN_OPCODE"
              /\ i <= Len(emitted) => LineInstr(instructions[i]) = emitted[i].ins
        /\ instructions # <<>> => instructions[1].offset = 0

C1_Witness ==
    /\ dis_state = "done"
    /\ calls = 1
    /\ \E i \in 1..Len(instructions) : instructions[i].mnemonic = "JNZ"
    /\ \E i \in 1..Len(instructions) :
          /\ instructions[i].mnemonic = "KEYDN"
          /\ instructions[i].mods # <<>>
          /\ instructions[i].keys # <<>>
    /\ \E i \in 1..Len(instructions) :
          instructions[i].mnemonic = "WAIT" /\ instructions[i].operands[1] > 255

\* the count operands of the repeat statements of a source, in source order
RepeatPositions(src) == { i \in 1..Len(src) : IsCmd(src[i], "repeat") }

SetCounterPositions == { i \in 1..Len(emitted) : emitted[i].ins.op = OP_SET_COUNTER }

RepeatExampleSource ==
    <<Cmd("repeat"), NumTok(3), BraceOpenTok, Cmd("press"), KeyTok("A"), BraceCloseTok>>

RepeatExampleBytes ==
    << 20, 0, 3, 0,  16, 0, 1, 4,  19, 30, 0,  17, 0, 1, 4,  19, 30, 0,
       21, 0,  22, 4, 0, 0, 0 >>

\* C2: in every program a fresh Compiler compiles successfully each repeat
\* block is SET_COUNTER idx N, the body, DEC idx, JNZ target: every JNZ is
\* preceded by a DEC whose index is that of an earlier SET_COUNTER, its
\* target is the offset right after that SET_COUNTER and is smaller than the
\* length of the returned bytes; every SET_COUNTER has its DEC/JNZ, and there
\* is one SET_COUNTER carrying the count N for each repeat statement of a
\* source compiled to its end; `repeat 3 { press A }` gives SET_COUNTER 0 3
\* at offset 0 and ends with DEC 0, JNZ 0x0004.
C2_RepeatLowering ==
    (pc = "done" /\ exc = "" /\ dis_state = "idle") =>
        /\ \A j \in 1..Len(emitted) :
              emitted[j].ins.op = OP_JNZ =>
                 /\ j > 2
                 /\ emitted[j - 1].ins.op = OP_DEC
                 /\ \E i \in 1..(j - 2) :
                       /\ emitted[i].ins.op = OP_SET_COUNTER
                       /\ emitted[i].ins.idx = emitted[j - 1].ins.idx
                       /\ emitted[j].ins.val = emitted[i].at + 4
                 /\ emitted[j].ins.val < Len(result)
        /\ \A i \in 1..Len(emitted) :
              emitted[i].ins.op = OP_SET_COUNTER =>
                 \E j \in (i + 2)..Len(emitted) :
                    /\ emitted[j].ins.op = OP_JNZ
                    /\ emitted[j - 1].ins = DecInstr(emitted[i].ins.idx)
                    /\ emitted[j].ins.val = emitted[i].at + 4
        /\ Head(tokens).type = "EOF" =>
              /\ Cardinality(SetCounterPositions) = Cardinality(RepeatPositions(source))
              /\ \A p \in 1..Len(source) :
                    IsCmd(source[p], "repeat") =>
                       \E i \in 1..Len(emitted) :
                          /\ emitted[i].ins.op = OP_SET_COUNTER
                          /\ emitted[i].ins.val = source[p + 1].num
        /\ source = RepeatExampleSource => result = RepeatExampleBytes

C2_Witness ==
    /\ pc = "done"
    /\ exc = ""
    /\ dis_state = "idle"
    /\ calls = 1
    /\ Cardinality(SetCounterPositions) = 2
    /\ Len(source) < 20
    /\ \E j \in 1..Len(emitted) : emitted[j].ins.op = OP_JNZ /\ emitted[j].ins.val > 4
    /\ Len(frames) = 0

\* the run of MODIFIER and KEY tokens after the command at the head of tokens
KeyRunEnd ==
    CHOOSE r \in 1..Len(tokens) :
       /\ \A i \in 2..r : tokens[i].type \in {"MODIFIER", "KEY"}
       /\ r = Len(tokens) \/ tokens[r + 1].type \notin {"MODIFIER", "KEY"}

KeyRun == SubSeq(tokens, 2, KeyRunEnd)

RunModifierNames ==
    LET ms == SelectSeq(KeyRun, LAMBDA t : t.type = "MODIFIER")
    IN  [i \in 1..Len(ms) |-> ms[i].value]

RunKeyNames ==
    LET ks == SelectSeq(KeyRun, LAMBDA t : t.type = "KEY")
    IN  [i \in 1..Len(ks) |-> ks[i].value]

\* a press statement with known modifiers and 1..6 known keys is next
PressStatementNext ==
    /\ pc = "compile"
    /\ IsCmd(Head(tokens), "press")
    /\ \A i \in 1..Len(RunModifierNames) : RunModifierNames[i] \in DOMAIN MODIFIER_MAP
    /\ \A i \in 1..Len(RunKeyNames) : RunKeyNames[i] \in DOMAIN KEY_MAP
    /\ Len(RunKeyNames) \in 1..6

PressExampleBytes == << 16, 0, 1, 4,  19, 30, 0,  17, 0, 1, 4,  19, 30, 0 >>

\* C3: a press statement with modifiers M and 1..6 known keys K appends
\* exactly KEYDN mod n K ; WAIT press_time ; KEYUP mod n K ; WAIT
\* interkey_time, mod the OR of the modifier bits and n = |K|; `press A`
\* under default timings compiles to 10 00 01 04 13 1E 00 11 00 01 04 13 1E 00.
C3_PressLowering ==
    [][ /\ PressStatementNext =>
            LET mod == ModsValue(RunModifierNames)
                K == [i \in 1..Len(RunKeyNames) |-> KEY_MAP[RunKeyNames[i]]]
                n == Len(K)
            IN  /\ exc' = ""
                /\ tokens' = SubSeq(tokens, KeyRunEnd + 1, Len(tokens))
                /\ bytecode' = bytecode
                      \o <<OP_KEYDN, mod, n>> \o K
                      \o <<OP_WAIT, current_press_time % 256, current_press_time \div 256>>
                      \o <<OP_KEYUP, mod, n>> \o K
                      \o <<OP_WAIT, current_interkey_time % 256,
                           current_interkey_time \div 256>>
                /\ Len(Appended) = 4
        /\ (pc' = "done" /\ source' = <<Cmd("press"), KeyTok("A")>>) =>
              result' = PressExampleBytes
      ]_vars

C3_Witness ==
    /\ calls = 1
    /\ pc = "compile"
    /\ Len(source) > 6
    /\ IsCmd(source[1], "press")
    /\ Len(emitted) = 4
    /\ emitted[1].ins.op = OP_KEYDN
    /\ emitted[1].ins.mod = 129
    /\ Len(emitted[1].ins.keys) = 6
    /\ emitted[4].ins.op = OP_WAIT

\* a type statement with a string literal is next
TypeStatementNext ==
    /\ pc = "compile"
    /\ IsCmd(Head(tokens), "type")
    /\ tokens[2].type = "STRING"

TypeExampleInstrs ==
    << KeyInstr(OP_KEYDN, 2, <<11>>), WaitInstr(30), KeyInstr(OP_KEYUP, 2, <<11>>),
       WaitInstr(30),
       KeyInstr(OP_KEYDN, 0, <<12>>), WaitInstr(30), KeyInstr(OP_KEYUP, 0, <<12>>) >>

\* C4: a type statement with a string of n characters appends, for each
\* character in order, KEYDN mod 1 [kc] ; WAIT press_time ; KEYUP mod 1 [kc],
\* and WAIT interkey_time after each character but the last: n KEYDN, n KEYUP
\* and 2n-1 WAIT for n >= 1, nothing for n = 0; `type "Hi"` under default
\* timings appends KEYDN 0x02 1 [0x0B], WAIT 30, KEYUP 0x02 1 [0x0B], WAIT 30,
\* KEYDN 0 1 [0x0C], WAIT 30, KEYUP 0 1 [0x0C].
C4_TypeLowering ==
    [][ TypeStatementNext =>
            LET s == tokens[2].chars
                n == Len(s)
                a == Appended
            IN  /\ exc' = ""
                /\ Len(a) = IF n = 0 THEN 0 ELSE 4 * n - 1
                /\ n = 0 => bytecode' = bytecode
                /\ \A c \in 1..n :
                      /\ a[4 * c - 3].ins.op = OP_KEYDN
                      /\ Len(a[4 * c - 3].ins.keys) = 1
                      /\ a[4 * c - 2].ins = WaitInstr(current_press_time)
                      /\ a[4 * c - 1].ins =
                            KeyInstr(OP_KEYUP, a[4 * c - 3].ins.mod, a[4 * c - 3].ins.keys)
                      /\ c < n => a[4 * c].ins = WaitInstr(current_interkey_time)
                /\ ( /\ s = <<Ch_H, Ch_i>>
                     /\ current_press_time = DEFAULT_TIME
                     /\ current_interkey_time = DEFAULT_TIME )
                      => [i \in 1..Len(a) |-> a[i].ins] = TypeExampleInstrs
      ]_vars

\* the operand of the last `cmd N` statement among the consumed tokens of the
\* source, or the default when there is none
LastSetting(cmd) ==
    LET P == { i \in 1..Consumed : IsCmd(source[i], cmd) }
    IN  IF P = {} THEN DEFAULT_TIME
        ELSE source[(CHOOSE i \in P : \A j \in P : j <= i) + 1].num

\* C5: the WAIT between the KEYDN and KEYUP of a press, and of each character
\* of a type, carries the value of the most recent press_time statement that
\* precedes it in the source, or 30 if there is none; the WAIT after a press
\* and between the characters of a type carries the most recent
\* interkey_time likewise; press_time and interkey_time statements append no
\* bytes.
C5_Timings ==
    [][ /\ ( /\ pc = "compile"
             /\ \/ IsCmd(Head(tokens), "press")
                \/ IsCmd(Head(tokens), "type") ) =>
              \A c \in 1..Len(Appended) :
                 /\ c % 4 = 2 => Appended[c].ins = WaitInstr(LastSetting("press_time"))
                 /\ c % 4 = 0 => Appended[c].ins = WaitInstr(LastSetting("interkey_time"))
        /\ ( /\ pc = "compile"
             /\ \/ IsCmd(Head(tokens), "press_time")
                \/ IsCmd(Head(tokens), "interkey_time") ) =>
              /\ bytecode' = bytecode
              /\ emitted' = emitted
      ]_vars

C5_Witness ==
    /\ calls = 1
    /\ pc = "done"
    /\ exc = ""
    /\ Len(source) = 6
    /\ source[1] = Cmd("press_time") /\ source[2] = NumTok(100)
    /\ source[3] = Cmd("press_time") /\ source[4] = NumTok(5)
    /\ Len(emitted) = 4
    /\ emitted[2].ins = WaitInstr(5)
    /\ emitted[4].ins = WaitInstr(30)

\* C6: on a fresh Compiler the k-th repeat statement of the source (k from 0,
\* nested or in sequence) gets counter index k: the index is larger than
\* that of every enclosing repeat block and was given to no earlier block.
C6_CounterIndices ==
    [][ ( /\ pc = "compile"
          /\ IsCmd(Head(tokens), "repeat")
          /\ exc' = "" ) =>
            /\ Len(Appended) = 1
            /\ Appended[1].ins.op = OP_SET_COUNTER
            /\ Appended[1].ins.idx =
                  Cardinality({ i \in 1..Consumed : IsCmd(source[i], "repeat") })
            /\ \A i \in 1..Len(frames) :
                  frames[i].counter_index < Appended[1].ins.idx
            /\ \A i \in 1..Len(emitted) :
                  emitted[i].ins.op = OP_SET_COUNTER =>
                     emitted[i].ins.idx # Appended[1].ins.idx
            /\ frames'[Len(frames')].counter_index = Appended[1].ins.idx
      ]_vars

C6_Witness ==
    /\ calls = 1
    /\ pc = "compile"
    /\ Len(frames) = 1
    /\ frames[1].counter_index = 2
    /\ Cardinality(SetCounterPositions) = 3

\* C7: compile raises CompileError for every program with more than 256
\* repeat blocks, nested or in sequence, so every counter index byte of a
\* returned bytecode is in 0..255.
C7_TooManyRepeats ==
    /\ (pc = "done" /\ dis_state = "idle"
           /\ Cardinality(RepeatPositions(source)) > max_counters) =>
          exc = "CompileError"
    /\ (pc = "done" /\ dis_state = "idle" /\ exc = "") =>
          \A i \in 1..Len(emitted) :
             emitted[i].ins.op \in {OP_SET_COUNTER, OP_DEC} => emitted[i].ins.idx \in 0..255

\* C8: on a fresh Compiler 256 properly closed nested repeat blocks compile,
\* and 257 nested `repeat 1 {` fail with a CompileError raised when the 257th
\* repeat is reached; the loop stack never holds more than 256 entries.
C8_NestingLimit ==
    /\ Len(loop_stack) <= max_counters
    /\ (pc = "done" /\ Len(source) = 4 * max_counters + 2
           /\ source = NestedRepeats(max_counters)) =>
          /\ exc = ""
          /\ Len(result) = 11 * max_counters + 14
    /\ (pc = "done" /\ Len(source) = 4 * (max_counters + 1) + 2
           /\ source = NestedRepeats(max_counters + 1)) =>
          /\ exc = "CompileError"
          /\ Consumed = 3 * (max_counters + 1)
          /\ Len(loop_stack) = max_counters
          /\ Len(emitted) = max_counters

C8_Witness ==
    /\ calls = 1
    /\ pc = "done"
    /\ exc = "CompileError"
    /\ source = NestedRepeats(max_counters + 1)
    /\ Len(loop_stack) = max_counters

\* C9: compile(S) returns the same bytes, or raises the same error, whatever
\* compile calls were made before on the same Compiler object.
C9_Deterministic ==
    \A i, j \in 1..Len(history) :
       history[i].source = history[j].source =>
          /\ history[i].exc = history[j].exc
          /\ history[i].result = history[j].result

\* C10: every frame send_command hands to device.write, in every operation
\* and for every argument the operation accepts, is exactly 65 bytes: report
\* id 0, the command code, three zero bytes, then the payload zero-padded to
\* 60 bytes.
C10_FrameShape ==
    \A f \in 1..Len(wire) :
       /\ Len(wire[f].hid_packet) = 1 + RAW_HID_REPORT_SIZE
       /\ Len(wire[f].data) <= DATA_PAYLOAD_SIZE
       /\ wire[f].hid_packet =
             <<0, wire[f].command, 0, 0, 0>> \o wire[f].data
                \o Zeros(DATA_PAYLOAD_SIZE - Len(wire[f].data))

(***************************************************************************)
(* Claims about the HID transport.                                         *)
(***************************************************************************)
WriteOpcodes(target) ==
    IF target = "flash"
    THEN [start |-> 32, chunk |-> 33, finish |-> 34]
    ELSE [start |-> 38, chunk |-> 39, finish |-> 40]

UploadReturnedTrue ==
    /\ usb_op.name = "upload_program"
    /\ usb_pc = "done"
    /\ usb_ret.kind = "return"
    /\ usb_ret.ok

\* byte j (from 0) of the i-th WRITE_CHUNK payload of program B: the program
\* byte at 60 * (i - 1) + j, or a zero after the end of the program
ChunkByte(B, i, j) ==
    IF DATA_PAYLOAD_SIZE * (i - 1) + j < B.len
    THEN ProgramByte(B, DATA_PAYLOAD_SIZE * (i - 1) + j) ELSE 0

\* C11: an upload_program(B, t) that returns True has written exactly one
\* WRITE_START carrying len(B) as a little-endian u32, then ceil(len(B)/60)
\* WRITE_CHUNK frames with the consecutive 60-byte slices of B (the last one
\* zero-padded), then one WRITE_FINISH carrying len(B), all with the opcodes
\* of target t.
C11_UploadFrames ==
    UploadReturnedTrue =>
       LET B == usb_op.program_data
           k == (B.len + DATA_PAYLOAD_SIZE - 1) \div DATA_PAYLOAD_SIZE
           opc == WriteOpcodes(usb_op.target)
           size == <<B.len % 256, (B.len \div 256) % 256, (B.len \div 65536) % 256,
                     (B.len \div 16777216) % 256>>
       IN  /\ Len(wire) = k + 2
           /\ wire[1].command = opc.start
           /\ wire[1].data = size
           /\ \A i \in 1..k :
                 /\ wire[i + 1].command = opc.chunk
                 /\ Len(wire[i + 1].data) = DATA_PAYLOAD_SIZE
                 /\ \A j \in 1..DATA_PAYLOAD_SIZE :
                       wire[i + 1].data[j] = ChunkByte(B, i, j - 1)
           /\ wire[k + 2].command = opc.finish
           /\ wire[k + 2].data = size
           /\ \A f \in 1..Len(wire) :
                 /\ wire[f].hid_packet[2] = wire[f].command
                 /\ Slice(wire[f].hid_packet, 5, 5 + Len(wire[f].data)) = wire[f].data

C11_Witness ==
    /\ UploadReturnedTrue
    /\ usb_op.program_data.len = 130
    /\ usb_op.target = "ram"
    /\ Len(wire) = 5

\* frames of the call handed to device.write whose response was not read
Unacked ==
    Len(wire) - Cardinality({ i \in 1..Len(acks) : acks[i] \in {"ok", "error", "unexpected"} })

\* C12: in upload_program and download_program at most one frame is without
\* its response at any time, and a frame is written only when the response
\* to every frame written before it in the call has been read.
C12_Lockstep ==
    [][ usb_op'.name \in {"upload_program", "download_program"} =>
           /\ Unacked' <= 1
           /\ Len(wire') > Len(wire) => Unacked = 0 /\ Len(acks) = Len(wire) ]_vars

C12_Witness ==
    /\ usb_op.name = "upload_program"
    /\ usb_pc = "upload_chunk"
    /\ usb_sc = "read"
    /\ Len(wire) = 3
    /\ Unacked = 1

MultiStepOperations == {"upload_program", "download_program", "nvs_set", "nvs_get"}

ReportsFailure(ret) == (ret.kind = "return" /\ ~ret.ok) \/ ret.kind = "raise"

\* C13: in upload_program, download_program, nvs_set and nvs_get the first
\* send_command that does not end with RESP_OK (RESP_ERROR, another first
\* byte, no response, device.write or device.read raising) is the last one of
\* the call: no frame is written after it and the call reports failure.
C13_AbortOnFailure ==
    usb_op.name \in MultiStepOperations =>
       \A i \in 1..Len(acks) :
          acks[i] # "ok" =>
             /\ i = Len(acks)
             /\ Len(wire) <= i
             /\ usb_pc = "done"
             /\ ReportsFailure(usb_ret)

C13_Witness ==
    /\ usb_op.name = "nvs_set"
    /\ acks = <<"ok", "error">>
    /\ Len(wire) = 2
    /\ usb_pc = "done"
    /\ ReportsFailure(usb_ret)

DownloadReturned ==
    /\ usb_op.name = "download_program"
    /\ usb_pc = "done"

\* C14: against the test double, once upload_program(B, t) has returned True
\* for a program of 0 < len(B) <= limit(t) bytes, download_program(t) returns
\* exactly the bytes of B.
C14_UploadDownload ==
    (/\ DownloadReturned
     /\ last_ok.upload.name = "upload_program"
     /\ last_ok.upload.target = usb_op.target
     /\ last_ok.upload.program_data.len > 0) =>
        LET B == last_ok.upload.program_data
        IN  /\ usb_ret.kind = "return"
            /\ usb_ret.ok
            /\ Len(usb_ret.data) = B.len
            /\ \A i \in 1..B.len : usb_ret.data[i] = ProgramByte(B, i - 1)

C14_Witness ==
    /\ DownloadReturned
    /\ last_ok.upload.name = "upload_program"
    /\ last_ok.upload.target = "ram"
    /\ usb_op.target = "ram"
    /\ last_ok.upload.program_data.len = 130
    /\ usb_ret.kind = "return"
    /\ Len(usb_ret.data) = 130
    /\ Len(wire) = 4

NvsGetReturned ==
    /\ usb_op.name = "nvs_get"
    /\ usb_pc = "done"

\* C16: against the test double, once nvs_set(key, type, value) has returned
\* True, nvs_get(key) returns (True, type, value): the same type name and an
\* equal value, for the eight integer types, string and blob.
C16_NvsRoundTrip ==
    (/\ NvsGetReturned
     /\ last_ok.nvs_set.name = "nvs_set"
     /\ last_ok.nvs_set.key = usb_op.key) =>
        LET set == last_ok.nvs_set
        IN  /\ usb_ret.kind = "return"
            /\ usb_ret.ok
            /\ usb_ret.type = set.value_type
            /\ set.value_type \in IntTypes => usb_ret.num = set.value
            /\ set.value_type = "string" => usb_ret.data = set.str.utf8
            /\ set.value_type = "blob" => usb_ret.data = set.blob


\* what the caller of an operation of ODKeyConfigHttp holds when it has
\* returned: the returned value, without the line printed on the way
Value(ret) == [ret EXCEPT !.msg = ""]

\* the answer the one request of the finished HTTP call got
AnswerStatus == http_log[1].status

HttpEnded(names) ==
    /\ http_pc = "done"
    /\ http_op.name \in names
    /\ http_log # <<>>

\* C17: nvs_set, on the HID transport and on the HTTP transport, rejects a
\* key of more than 15 UTF-8 bytes and a string or blob payload of more than
\* 1024 bytes: the call fails and no frame or request is sent.
PayloadLen(op) ==
    IF op.value_type = "string" THEN Len(op.str.utf8)
    ELSE IF op.value_type = "blob" THEN Len(op.blob) ELSE 0

TooLong(op) == Len(op.key.utf8) > MAX_KEY_CHARS \/ PayloadLen(op) > MAX_VALUE_BYTES

C17_NvsSetRejects ==
    /\ (usb_op.name = "nvs_set" /\ TooLong(usb_op))
          => /\ wire = <<>>
             /\ usb_pc = "done" => ReportsFailure(usb_ret)
    /\ (http_pc = "done" /\ http_op.name = "nvs_set" /\ TooLong(http_op))
          => /\ http_log = <<>>
             /\ ReportsFailure(http_ret)

\* C18: on the HTTP transport nvs_get and download_program raise nothing, and
\* what they return for a 404 answer differs from what they return for a 5xx
\* answer and for a failed request.
C18_NotFoundDistinct ==
    /\ HttpEnded({"nvs_get", "download_program"}) => http_ret.kind = "return"
    /\ (HttpEnded({"nvs_get"}) /\ AnswerStatus = 404)
          => \A status \in {500, RequestException}, body \in HttpValues :
                Value(http_ret) # Value(NvsGetResult(status, body))
    /\ (HttpEnded({"download_program"}) /\ AnswerStatus = 404)
          => \A status \in {500, RequestException}, content \in HttpPrograms :
                Value(http_ret) # Value(DownloadResult(status, content))

\* the limits the specification gives for a program: 8 KiB for RAM, 1 MiB
\* less one 4 KiB page for flash
ClaimedLimit(target) == IF target = "ram" THEN 8 * 1024 ELSE (1024 * 1024) - (4 * 1024)

Oversized(op) ==
    /\ op.name = "upload_program"
    /\ op.program_data.len > ClaimedLimit(op.target)

\* C15: upload_program rejects a program above 8192 bytes for ram and above
\* 1044480 bytes for flash before any frame or request is sent, as a
\* transport operation and as the CLI upload command on each interface.
C15_SizeLimit ==
    /\ Oversized(usb_op)
          => /\ wire = <<>>
             /\ usb_pc = "done" => ReportsFailure(usb_ret)
    /\ Oversized(http_op)
          => /\ http_log = <<>>
             /\ http_pc = "done" => ReportsFailure(http_ret)
    /\ (cli.command = "upload" /\ Oversized(cli.call))
          => /\ wire = <<>>
             /\ http_log = <<>>
             /\ cli.pc = "exit" => cli.exit = 1

\* C19: once a CLI device command has created its transport object, it
\* returns only after close() was called on it: on success, on every early
\* return 1 and on every exception; the HID handle is not open at the return.
C19_ClosedOnExit ==
    (cli.pc = "exit" /\ cli.config # "none")
       => /\ cli.closes = 1
          /\ cli.config = "closed"
          /\ device = "none"

C19_Witness ==
    /\ cli.pc = "exit"
    /\ cli.command = "download"
    /\ cli.interface = "usb"
    /\ cli.call.name = "download_program"
    /\ cli.exit = 1
    /\ cli.closes = 1

\* an early return 1 of a command whose find_device succeeded, and a
\* successful return, both closed
C19_WitnessSuccess ==
    /\ cli.pc = "exit"
    /\ cli.command = "upload"
    /\ cli.interface = "usb"
    /\ cli.exit = 0
    /\ cli.closes = 1

\* C20: a CLI command returns 0 exactly when its operation succeeded and 1 on
\* any failure; the log command returns 1 when GET /api/logs is answered with
\* a status other than 200 or the request fails.
C20_ExitCodes ==
    cli.pc = "exit" => /\ cli.exit \in {0, 1}
                       /\ cli.exit = 0 <=> ~cli.failed

\* the exit code of every command but `log`
C20_OtherCommands ==
    (cli.pc = "exit" /\ cli.command # "log") => /\ cli.exit \in {0, 1}
                                                /\ cli.exit = 0 <=> ~cli.failed

\* C21: the HID transport and the HTTP transport have the same operations
\* {upload_program, download_program, execute_program, nvs_set, nvs_get,
\* nvs_delete, download_logs, clear_logs, close}, so no CLI command, `log`
\* and `log-clear` included, ends on a transport lacking the operation it
\* calls.
DispatchedOperations ==
    {"upload_program", "download_program", "execute_program", "nvs_set", "nvs_get",
     "nvs_delete", "download_logs", "clear_logs", "close"}

C21_SameOperations ==
    /\ cli.pc = "call" => cli.call.name \in DispatchedOperations
    /\ cli.raised # "AttributeError"

\* a statement with a number operand is compiled in this step
NumberStep ==
    /\ pc = "compile"
    /\ Head(tokens).type = "COMMAND"
    /\ Head(tokens).value \in NumberCommands
    /\ tokens' # tokens
    /\ tokens[2].type = "NUMBER"

TimesUnchanged ==
    /\ current_press_time' = current_press_time
    /\ current_interkey_time' = current_interkey_time

StatementFails ==
    /\ exc' = "CompileError"
    /\ pc' = "done"
    /\ bytecode' = bytecode
    /\ TimesUnchanged

Accepted(command, n) ==
    IF command = "press_time"
    THEN /\ exc' = ""
         /\ bytecode' = bytecode
         /\ current_press_time' = n
         /\ current_interkey_time' = current_interkey_time
    ELSE IF command = "interkey_time"
    THEN /\ exc' = ""
         /\ bytecode' = bytecode
         /\ current_interkey_time' = n
         /\ current_press_time' = current_press_time
    ELSE IF command = "pause"
    THEN /\ exc' = ""
         /\ bytecode' = bytecode \o <<OP_WAIT, n % 256, n \div 256>>
         /\ TimesUnchanged
    ELSE (tokens[3].type = "BRACE_OPEN" /\ Len(loop_stack) < max_counters)
            => /\ exc' = ""
               /\ bytecode' = bytecode \o <<OP_SET_COUNTER, counter_index, n % 256,
                                             n \div 256>>
               /\ TimesUnchanged

\* C22: press_time N, interkey_time N, pause N and repeat N with N outside
\* 0..65535 (a "-" before the number included) end compile with a
\* CompileError, append no byte and leave both timings as they were; every
\* N in 0..65535 is accepted and written as two little-endian bytes.
C22_NumberRange ==
    [][ /\ (NumberStep /\ tokens[2].num \notin 0..65535) => StatementFails
        /\ (NumberStep /\ tokens[2].num \in 0..65535)
              => Accepted(Head(tokens).value, tokens[2].num)
        /\ (pc = "idle" /\ pc' # "idle" /\ LexerRaises(source')) => StatementFails
      ]_vars

C22_Witness ==
    /\ pc = "done"
    /\ source = NumberStatement("interkey_time", FALSE, UINT16_MAX + 1)
    /\ exc = "CompileError"
    /\ bytecode # <<>>
    /\ current_interkey_time = DEFAULT_TIME

\* the accepted limit, as the two bytes of the WAIT it gives
C22_WitnessAccepted ==
    /\ pc = "done"
    /\ source = NumberStatement("pause", FALSE, UINT16_MAX)
    /\ exc = ""
    /\ \E i \in 1..(Len(result) - 2) :
          result[i] = OP_WAIT /\ result[i + 1] = 255 /\ result[i + 2] = 255

\* the number written with a minus sign
C22_WitnessNegative ==
    /\ pc = "done"
    /\ source = NumberStatement("repeat", TRUE, 1)
    /\ exc = "CompileError"
    /\ bytecode = <<>>

\* a keydn, keyup or press statement with a list of modifiers and keys is
\* compiled in this step
KeyListStep ==
    /\ pc = "compile"
    /\ Head(tokens).type = "COMMAND"
    /\ Head(tokens).value \in {"keydn", "keyup", "press"}
    /\ tokens' # tokens
    /\ KeyRun # <<>>

BadKeyList ==
    \/ Len(RunKeyNames) >= 7
    \/ \E i \in 1..Len(RunKeyNames) : RunKeyNames[i] \notin DOMAIN KEY_MAP
    \/ \E i \in 1..Len(RunModifierNames) : RunModifierNames[i] \notin DOMAIN MODIFIER_MAP

\* C23: no KEYDN or KEYUP instruction is emitted with more than 6 keys; a
\* keydn, keyup or press statement listing a 7th key, a key name that is not
\* in the key table or an M_ name that is not in the modifier table ends
\* compile with a CompileError.
C23_KeyLimit ==
    [][ /\ \A j \in 1..Len(emitted') :
              emitted'[j].ins.op \in {OP_KEYDN, OP_KEYUP} => Len(emitted'[j].ins.keys) <= 6
        /\ (KeyListStep /\ BadKeyList)
              => /\ exc' = "CompileError"
                 /\ pc' = "done"
                 /\ bytecode' = bytecode
      ]_vars

C23_Witness ==
    /\ pc = "done"
    /\ exc = "CompileError"
    /\ source = <<Cmd("keydn")>> \o [i \in 1..7 |-> KeyTok(KeyNamesUsed[i])]
    /\ bytecode = <<>>

\* six keys are accepted
C23_WitnessSixKeys ==
    /\ pc = "done"
    /\ exc = ""
    /\ source = <<Cmd("keyup")>> \o [i \in 1..6 |-> KeyTok(KeyNamesUsed[i])]
    /\ result = <<OP_KEYUP, 0, 6>> \o [i \in 1..6 |-> KEY_MAP[KeyNamesUsed[i]]]

\* the source has more opening than closing braces: a repeat block in it is
\* not closed
Braces(src, type) == Cardinality({ i \in 1..Len(src) : src[i].type = type })

Unclosed(src) == Braces(src, "BRACE_OPEN") > Braces(src, "BRACE_CLOSE")

\* C24: a repeat N that is not followed by an opening brace, and a repeat
\* block with no closing brace before the end of input, end compile with a
\* CompileError; compile returns no bytecode for a program with an unclosed
\* repeat block.
C24_UnclosedRepeat ==
    (pc = "done" /\ Unclosed(source)) => (exc = "CompileError" /\ result = <<>>)

\* the repeat statements compile arrives at: without the opening brace, and
\* at the end of the body without the closing brace, CompileError
C24_ReachedRepeat ==
    [][ /\ (/\ pc = "compile"
            /\ IsCmd(Head(tokens), "repeat")
            /\ tokens' # tokens
            /\ tokens[2].type = "NUMBER"
            /\ tokens[2].num <= UINT16_MAX
            /\ tokens[3].type # "BRACE_OPEN")
              => (exc' = "CompileError" /\ pc' = "done" /\ bytecode' = bytecode)
        /\ (/\ pc = "compile"
            /\ frames # <<>>
            /\ Head(tokens).type = "EOF"
            /\ pc' # pc)
              => (exc' = "CompileError" /\ pc' = "done" /\ result' = <<>>)
      ]_vars

\* a keyup statement that lists no modifier and no key is being compiled
BareKeyupStep ==
    /\ pc = "compile"
    /\ IsCmd(Head(tokens), "keyup")
    /\ tokens' # tokens
    /\ tokens[2].type \in {"EOF", "COMMENT", "COMMAND", "BRACE_CLOSE"}

\* C25: a keyup statement with an empty modifier/key list compiles to the
\* single byte KEYUP_ALL wherever it stands (before the end of input, a
\* comment, another statement or a closing brace); a KEYUP instruction is
\* emitted only with at least one modifier or key.
C25_BareKeyup ==
    [][ /\ BareKeyupStep
           => /\ bytecode' = Append(bytecode, OP_KEYUP_ALL)
              /\ exc' = ""
              /\ tokens' = Tail(tokens)
        /\ \A j \in 1..Len(emitted') :
              emitted'[j].ins.op = OP_KEYUP
                 => (emitted'[j].ins.mod # 0 \/ emitted'[j].ins.keys # <<>>)
      ]_vars

\* before the end of input and before a comment the statement is KEYUP_ALL
C25_LastOrComment ==
    [][ (BareKeyupStep /\ tokens[2].type \in {"EOF", "COMMENT"})
           => /\ bytecode' = Append(bytecode, OP_KEYUP_ALL)
              /\ exc' = ""
              /\ tokens' = Tail(tokens)
      ]_vars

\* the characters of the printable-ASCII table of the type statement
TableChars ==
    { "A", "B", "C", "D", "E", "F", "G", "H", "I", "J", "K", "L", "M",
      "N", "O", "P", "Q", "R", "S", "T", "U", "V", "W", "X", "Y", "Z",
      "a", "b", "c", "d", "e", "f", "g", "h", "i", "j", "k", "l", "m",
      "n", "o", "p", "q", "r", "s", "t", "u", "v", "w", "x", "y", "z",
      "0", "1", "2", "3", "4", "5", "6", "7", "8", "9", " " }
      \cup DOMAIN symbol_map \cup DOMAIN whitespace_map

\* compile has ended on `interkey_time 7` and one type statement
TypedString == source[4].chars

TypeEnded ==
    /\ pc = "done"
    /\ Len(source) = 4
    /\ SubSeq(source, 1, 3) = <<Cmd("interkey_time"), NumTok(7), Cmd("type")>>
    /\ source[4].type = "STRING"

\* the KEYDN of the i-th character of the string
KeydnOf(i) == emitted[4 * (i - 1) + 1].ins

\* C26: in a type statement every character with no entry in the
\* printable-ASCII table, non-ASCII letters and digits included, is emitted
\* as SPACE with modifier 0, and the statement never fails on such a
\* character.
C26_FallbackToSpace ==
    TypeEnded =>
        /\ exc = ""
        /\ \A i \in 1..Len(TypedString) :
              TypedString[i].ch \notin TableChars
                 => /\ 4 * (i - 1) + 1 <= Len(emitted)
                    /\ KeydnOf(i) = KeyInstr(OP_KEYDN, 0, <<KEY_MAP["SPACE"]>>)

\* the same for the strings without a non-ASCII digit
C26_NoForeignDigit ==
    (TypeEnded /\ \A i \in 1..Len(TypedString) :
                     TypedString[i].isdigit => TypedString[i].ch \in TableChars)
       => /\ exc = ""
          /\ \A i \in 1..Len(TypedString) :
                TypedString[i].ch \notin TableChars
                   => KeydnOf(i) = KeyInstr(OP_KEYDN, 0, <<KEY_MAP["SPACE"]>>)

\* the READ_CHUNK frames the download_program call has sent
ReadChunkFrames ==
    Cardinality({ i \in 1..Len(wire) :
                     wire[i].command \in {CMD_FLASH_PROGRAM_READ_CHUNK,
                                          CMD_RAM_PROGRAM_READ_CHUNK} })

\* every response the call has read is a full 64-byte RESP_OK frame
FullOkFrames ==
    /\ reads # <<>>
    /\ \A i \in 1..Len(reads) :
          /\ Len(reads[i]) = RAW_HID_REPORT_SIZE
          /\ reads[i][1] = RESP_OK

\* the size READ_START reported
ReportedSize == UnpackUnsigned(Slice(reads[1], 4, 8))

\* response bytes 4..64 of the chunk responses from the i-th read on
RECURSIVE ChunkBytes(_)
ChunkBytes(i) ==
    IF i > Len(reads) THEN <<>>
    ELSE Slice(reads[i], 4, 64) \o ChunkBytes(i + 1)

\* C27: download_program over HID, every response being a full 64-byte
\* RESP_OK frame: for a reported size 0 it fails with "No program stored on
\* device" and sends no READ_CHUNK; for a size S > 0 it sends exactly
\* ceil(S/60) READ_CHUNK frames and returns exactly S bytes, the bytes 4..64
\* of the chunk responses concatenated and truncated to S.
C27_Download ==
    (usb_op.name = "download_program" /\ FullOkFrames) =>
        LET S == ReportedSize
            chunks == (S + DATA_PAYLOAD_SIZE - 1) \div DATA_PAYLOAD_SIZE
        IN  /\ ReadChunkFrames <= chunks
            /\ S = 0 => /\ usb_pc = "done"
                        /\ usb_ret = Raises("No program stored on device")
            /\ (S > 0 /\ usb_pc = "done")
                  => /\ ReadChunkFrames = chunks
                     /\ Len(reads) = chunks + 1
                     /\ usb_ret = ReturnsData(Slice(ChunkBytes(2), 0, S))
                     /\ Len(usb_ret.data) = S

\* 125 bytes came in three chunks
C27_Witness ==
    /\ usb_op.name = "download_program"
    /\ usb_pc = "done"
    /\ FullOkFrames
    /\ ReportedSize = 125
    /\ ReadChunkFrames = 3
    /\ usb_ret.kind = "return"
    /\ Len(usb_ret.data) = 125

\* size 0: no READ_CHUNK
C27_WitnessEmpty ==
    /\ usb_op.name = "download_program"
    /\ usb_pc = "done"
    /\ FullOkFrames
    /\ ReportedSize = 0
    /\ Len(wire) = 1
    /\ usb_ret = Raises("No program stored on device")

\* a multiple of 60: no chunk after the last full one
C27_WitnessSixty ==
    /\ usb_op.name = "download_program"
    /\ usb_pc = "done"
    /\ FullOkFrames
    /\ ReportedSize = 60
    /\ ReadChunkFrames = 1
    /\ usb_ret.kind = "return"
    /\ Len(usb_ret.data) = 60

\* send_command has been called on an open device and has not returned
InSendCommand == usb_op.name = "send_command" /\ usb_pc = "send"

SendCommandEnded == usb_op.name = "send_command" /\ usb_pc = "done"

\* the frame is written at most once; no response within the five seconds,
\* and a response with an unknown first byte, are returned as (False, b"")
SendOnceAndFails ==
    usb_op.name = "send_command" =>
        /\ Len(wire) <= 1
        /\ (SendCommandEnded /\ acks # <<>> /\ acks[1] \in {"timeout", "unexpected"})
              => (Len(wire) = 1 /\ usb_ret = [Returns(FALSE) EXCEPT !.data = <<>>])

\* C28: send_command always returns: it writes its frame exactly once, a
\* call on a device that never responds eventually returns (False, b""), and
\* a response whose first byte is neither RESP_OK nor RESP_ERROR is returned
\* as (False, b"").
C28_AlwaysReturns ==
    /\ []SendOnceAndFails
    /\ InSendCommand ~> SendCommandEnded

\* the safety part of the claim
C28_WritesOnce == []SendOnceAndFails

\* a call returns unless device.read does not come back
C28_ReturnsUnlessBlocked ==
    InSendCommand ~> (SendCommandEnded \/ usb_sc = "blocked")

\* the five seconds are over and the call has returned (False, b"")
C28_WitnessTimeout ==
    /\ SendCommandEnded
    /\ acks = <<"timeout">>
    /\ usb_local.elapsed = MaxPolls
    /\ usb_ret = [Returns(FALSE) EXCEPT !.data = <<>>]

\* the GET_DATA frames the nvs_get call has sent
GetDataFrames == Cardinality({ i \in 1..Len(wire) : wire[i].command = CMD_NVS_GET_DATA })

\* GET_START was answered with RESP_OK, a known type and a size, and every
\* response since was RESP_OK
GetAnswered ==
    /\ usb_op.name = "nvs_get"
    /\ reads # <<>>
    /\ Len(reads[1]) >= 9
    /\ reads[1][5] \in DOMAIN BYTE_TO_TYPE
    /\ \A i \in 1..Len(reads) : reads[i] # <<>> /\ reads[i][1] = RESP_OK

\* the size GET_START declared
DeclaredSize == UnpackUnsigned(Slice(reads[1], 5, 9))

\* ceil(max(0, S - 55) / 60)
DataFramesFor(S) ==
    (Max(0, S - FIRST_CHUNK_SIZE) + DATA_PAYLOAD_SIZE - 1) \div DATA_PAYLOAD_SIZE

\* response bytes 4..64 of the GET_DATA responses from the i-th read on
RECURSIVE DataBytes(_)
DataBytes(i) ==
    IF i > Len(reads) THEN <<>>
    ELSE Slice(reads[i], 4, 64) \o DataBytes(i + 1)

GetDataLoop ==
    LET S == DeclaredSize
    IN  /\ GetDataFrames <= DataFramesFor(S)
        /\ S <= FIRST_CHUNK_SIZE => GetDataFrames = 0
        /\ usb_pc = "done"
              => /\ GetDataFrames = DataFramesFor(S)
                 /\ usb_local.bytes_received = S
                 /\ usb_local.value_data
                       = Slice(Slice(reads[1], 9, 9 + FIRST_CHUNK_SIZE) \o DataBytes(2), 0, S)

\* C29: nvs_get over HID, for a GET_START response declaring size S and
\* RESP_OK responses after it: min(55, S) bytes are taken from response[9..],
\* then exactly ceil(max(0, S - 55) / 60) GET_DATA frames are sent, up to 60
\* bytes taken from response[4..64] of each, and the loop ends with exactly
\* S bytes; no GET_DATA frame for S <= 55; the loop ends for every sequence
\* of RESP_OK responses.
C29_GetData == GetAnswered => GetDataLoop

\* the same when every response is a full 64-byte frame
C29_FullFrames == (GetAnswered /\ FullOkFrames) => GetDataLoop

\* a value of 120 bytes came in the first response and two GET_DATA frames
C29_WitnessFull ==
    /\ GetAnswered
    /\ FullOkFrames
    /\ usb_pc = "done"
    /\ DeclaredSize = 120
    /\ GetDataFrames = 2
    /\ Len(usb_local.value_data) = 120

\* nvs_set of a string with an open device and a key of at most 15 characters
SetsString ==
    /\ usb_op.name = "nvs_set"
    /\ usb_op.value_type = "string"
    /\ usb_pc # "idle"
    /\ device = "open"
    /\ usb_op.key.len <= MAX_KEY_CHARS

\* the UTF-8 bytes and exactly one NUL are sent; the string is accepted iff
\* its UTF-8 length plus the NUL is at most 1024
OneNulSent ==
    SetsString =>
        /\ usb_ret = Fails("Value too large") <=> Len(usb_op.str.utf8) + 1 > MAX_VALUE_BYTES
        /\ Len(usb_op.str.utf8) + 1 <= MAX_VALUE_BYTES
              => /\ usb_local.value_bytes = usb_op.str.utf8 \o <<0>>
                 /\ wire # <<>> =>
                       Slice(wire[1].data, 1, 5) = StructPack(Len(usb_op.str.utf8) + 1, 4)

\* nvs_get of the key the last successful nvs_set stored a string under
GotString ==
    /\ NvsGetReturned
    /\ last_ok.nvs_set.name = "nvs_set"
    /\ last_ok.nvs_set.value_type = "string"
    /\ last_ok.nvs_set.key = usb_op.key

EndsInNul(b) == b # <<>> /\ b[Len(b)] = 0

\* C30: nvs_set_str sends the UTF-8 bytes followed by exactly one NUL and
\* nvs_get strips exactly that NUL, so every string, one that ends in NUL
\* characters included, is returned unchanged; a string is accepted iff its
\* UTF-8 length plus the NUL is at most 1024 bytes.
C30_StringRoundTrip ==
    /\ OneNulSent
    /\ GotString => usb_ret = ReturnsValue("string", 0, last_ok.nvs_set.str.utf8)

\* the same for the strings that do not end in NUL
C30_NoTrailingNul ==
    /\ OneNulSent
    /\ (GotString /\ ~EndsInNul(last_ok.nvs_set.str.utf8))
          => usb_ret = ReturnsValue("string", 0, last_ok.nvs_set.str.utf8)

\* a string of 1023 bytes came back as it was set
C30_WitnessLongest ==
    /\ GotString
    /\ Len(last_ok.nvs_set.str.utf8) = MAX_VALUE_BYTES - 1
    /\ usb_ret.data = last_ok.nvs_set.str.utf8

\* the width in bytes of an integer type, and whether it is signed
Signed(type_str) == type_str \in {"i8", "i16", "i32", "i64"}

\* the value is in the range of the type; the values of the model are below
\* 2^31 in magnitude, so for the 32- and 64-bit types only the sign matters
InRange(type_str, v) ==
    LET w == IntWidth(type_str)
        half == IF w = 1 THEN 128 ELSE 32768
    IN  IF w <= 2
        THEN IF Signed(type_str) THEN -half <= v /\ v < half
             ELSE 0 <= v /\ v < 2 * half
        ELSE Signed(type_str) \/ v >= 0

\* nvs_set of an integer has returned True
SetIntReturned ==
    /\ usb_op.name = "nvs_set"
    /\ usb_op.value_type \in IntTypes
    /\ usb_pc = "done"
    /\ usb_ret = Returns(TRUE)

\* the SET_DATA frames of the call
SetDataFrames == { i \in 1..Len(wire) : wire[i].command = CMD_NVS_SET_DATA }

\* w/8 little-endian bytes of the value in a single SET_DATA frame
OneDataFrame ==
    SetIntReturned =>
        /\ Cardinality(SetDataFrames) = 1
        /\ \A i \in SetDataFrames :
              /\ Len(wire[i].data) = IntWidth(usb_op.value_type)
              /\ wire[i].data = StructPack(usb_op.value, IntWidth(usb_op.value_type))

\* nvs_get of the key the last successful nvs_set stored an integer under
GotInt ==
    /\ NvsGetReturned
    /\ last_ok.nvs_set.name = "nvs_set"
    /\ last_ok.nvs_set.value_type \in IntTypes
    /\ last_ok.nvs_set.key = usb_op.key

\* C31: nvs_set_int sends the value as w/8 little-endian bytes in a single
\* SET_DATA frame, nvs_get decodes them to the original value for every
\* value in the range of the type, and a value outside the range of the
\* type is not stored as a different number without an error.
C31_IntRoundTrip ==
    /\ OneDataFrame
    /\ GotInt => usb_ret = ReturnsValue(last_ok.nvs_set.value_type, last_ok.nvs_set.value, <<>>)
    /\ SetIntReturned => InRange(usb_op.value_type, usb_op.value)

\* the same for the values inside the range of their type
C31_InRange ==
    /\ OneDataFrame
    /\ (GotInt /\ InRange(last_ok.nvs_set.value_type, last_ok.nvs_set.value))
          => usb_ret = ReturnsValue(last_ok.nvs_set.value_type, last_ok.nvs_set.value, <<>>)

\* -1 came back from an i64
C31_WitnessNegative ==
    /\ GotInt
    /\ last_ok.nvs_set.value_type = "i64"
    /\ last_ok.nvs_set.value = -1
    /\ usb_ret.num = -1

(***************************************************************************)
(* C32: line and column of the tokens of the Lexer.                        *)
(***************************************************************************)
\* the number of newline characters among the first n characters
Newlines(src, n) == Cardinality({ i \in 1..n : src[i] = NL })

\* the number of characters among the first n that stand after the last
\* newline
SinceNewline(src, n) ==
    LET nls == { i \in 1..n : src[i] = NL }
    IN  IF nls = {} THEN n ELSE n - (CHOOSE i \in nls : \A j \in nls : j <= i)

AtFirstCharacter(t) ==
    /\ t.line = 1 + Newlines(lex.source, t.at)
    /\ t.column = 1 + SinceNewline(lex.source, t.at)

OneEofLast ==
    lex.pc = "done" =>
       /\ lex.tokens # <<>>
       /\ \A i \in 1..Len(lex.tokens) : lex.tokens[i].type = "EOF" <=> i = Len(lex.tokens)

\* a string literal before token i spans a raw newline
NewlineInString(i) ==
    \E j \in 1..(i - 1) :
       /\ lex.tokens[j].type = "STRING"
       /\ \E k \in (lex.tokens[j].at + 1)..lex.tokens[j].end : lex.source[k] = NL

\* C32: every token of the Lexer carries the 1-based line (1 plus the
\* newlines before it) and the 1-based column (1 plus the characters since
\* the last newline) of its first character, also after comments and after
\* string literals with a raw newline, and the token list of a finished
\* Lexer ends with exactly one EOF token.
C32_LineColumn ==
    /\ \A i \in 1..Len(lex.tokens) : AtFirstCharacter(lex.tokens[i])
    /\ OneEofLast

\* the part of C32 that holds: tokens with no raw newline inside an earlier
\* string literal, and the single EOF token
C32_NoNewlineInString ==
    /\ \A i \in 1..Len(lex.tokens) : NewlineInString(i) \/ AtFirstCharacter(lex.tokens[i])
    /\ OneEofLast

\* a token after a comment and a newline, on line 2 column 1
C32_WitnessAfterComment ==
    /\ lex.pc = "done"
    /\ Len(lex.tokens) = 3
    /\ lex.tokens[1].type = "COMMENT"
    /\ lex.tokens[2].type = "KEY" /\ lex.tokens[2].line = 2 /\ lex.tokens[2].column = 1

\* the token after a string literal holding a raw newline
C32_WitnessNewlineInString ==
    /\ lex.pc = "done"
    /\ lex.source = <<QUOTE, NL, QUOTE, "a">>
    /\ lex.tokens[2].line = 1 /\ lex.tokens[2].column = 4

(***************************************************************************)
(* C33: the offsets of the lines of disassemble.                           *)
(***************************************************************************)
\* the mnemonic of an opcode byte
Mnemonic(opcode) ==
    IF opcode = OP_KEYDN THEN "KEYDN"
    ELSE IF opcode = OP_KEYUP THEN "KEYUP"
    ELSE IF opcode = OP_KEYUP_ALL THEN "KEYUP_ALL"
    ELSE IF opcode = OP_WAIT THEN "WAIT"
    ELSE IF opcode = OP_SET_COUNTER THEN "SET_COUNTER"
    ELSE IF opcode = OP_DEC THEN "DEC"
    ELSE IF opcode = OP_JNZ THEN "JNZ"
    ELSE "UNKNOWN_OPCODE"

\* the encoded length of the instruction whose opcode byte stands at offset
EncodedLength(data, offset) ==
    LET mnemonic == Mnemonic(data[offset + 1])
    IN  IF mnemonic \in {"KEYDN", "KEYUP"} THEN 3 + data[offset + 3]
        ELSE IF mnemonic = "WAIT" THEN 3
        ELSE IF mnemonic = "SET_COUNTER" THEN 4
        ELSE IF mnemonic = "DEC" THEN 2
        ELSE IF mnemonic = "JNZ" THEN 5
        ELSE 1

\* C33: for every byte sequence each line of disassemble carries the offset
\* of its opcode byte: the first line has offset 0, each following line the
\* previous offset plus the encoded length of the previous instruction
\* (3+n for KEYDN / KEYUP, 1 for KEYUP_ALL and unknown opcodes, 3 for WAIT,
\* 4 for SET_COUNTER, 2 for DEC, 5 for JNZ), the '(incomplete)' lines too.
C33_Offsets ==
    \A i \in 1..Len(instructions) :
       /\ i = 1 => instructions[i].offset = 0
       /\ i > 1 => instructions[i].offset
                      = instructions[i - 1].offset
                        + EncodedLength(dis_in, instructions[i - 1].offset)
       /\ instructions[i].offset < Len(dis_in)
       /\ instructions[i].mnemonic = Mnemonic(dis_in[instructions[i].offset + 1])

\* KEYDN with one key, then a KEYUP cut after its modifier: the incomplete
\* line at offset 4
C33_Witness ==
    /\ dis_state = "done"
    /\ dis_in = <<OP_KEYDN, 1, 1, 1, OP_KEYUP, 0>>
    /\ Len(instructions) = 2
    /\ instructions[2].incomplete /\ instructions[2].offset = 4

\* a key list cut short after its count byte, behind another instruction
C33_WitnessCount ==
    /\ dis_state = "done"
    /\ dis_in = <<OP_SET_COUNTER, 0, 1, 0, OP_KEYDN, 0, 1>>
    /\ Len(instructions) = 2
    /\ instructions[2].incomplete /\ instructions[2].offset = 4

\* the line after the five bytes of JNZ
C33_WitnessJnz ==
    /\ dis_state = "done"
    /\ Len(instructions) = 3
    /\ instructions[1].mnemonic = "JNZ"
    /\ instructions[2].mnemonic = "DEC" /\ instructions[2].offset = 5
    /\ instructions[3].mnemonic = "UNKNOWN_OPCODE" /\ instructions[3].offset = 7

(***************************************************************************)
(* C34: disassemble terminates and stays inside its argument.              *)
(***************************************************************************)
IncompleteLines == { i \in 1..Len(instructions) : instructions[i].incomplete }

\* the bytes end inside the instruction whose opcode byte stands at offset
EndsInside(data, offset) ==
    IF Mnemonic(data[offset + 1]) \in {"KEYDN", "KEYUP"}
    THEN offset + 3 > Len(data) \/ offset + 3 + data[offset + 3] > Len(data)
    ELSE offset + EncodedLength(data, offset) > Len(data)

\* the state of the loop: pc never beyond the end, at most one incomplete
\* line and only as the last line of a finished run, an unknown opcode
\* takes exactly one byte, and the last line of a finished run is incomplete
\* exactly when the bytes end inside its instruction
InsideBytes ==
    /\ dis_pc <= Len(dis_in)
    /\ Cardinality(IncompleteLines) <= 1
    /\ \A i \in IncompleteLines : i = Len(instructions) /\ dis_state = "done"
    /\ \A i \in 1..Len(instructions) :
          instructions[i].mnemonic = "UNKNOWN_OPCODE" =>
             /\ dis_in[instructions[i].offset + 1] \notin OP_KEYDN..OP_JNZ
             /\ IF i < Len(instructions)
                THEN instructions[i + 1].offset = instructions[i].offset + 1
                ELSE dis_pc = instructions[i].offset + 1
    /\ (dis_state = "done" /\ instructions # <<>>) =>
          (instructions[Len(instructions)].incomplete
             <=> EndsInside(dis_in, instructions[Len(instructions)].offset))

\* one iteration of the loop moves pc forward, and a byte that is none of
\* the seven opcodes gives UNKNOWN_OPCODE
Progress ==
    DisassembleStep =>
       /\ dis_pc' > dis_pc
       /\ dis_in[dis_pc + 1] \notin OP_KEYDN..OP_JNZ =>
             /\ instructions'[Len(instructions')].mnemonic = "UNKNOWN_OPCODE"
             /\ dis_pc' = dis_pc + 1
             /\ dis_state' = "run"

\* C34: disassemble terminates on every byte sequence and never reads past
\* its end: pc strictly increases on every step, a byte that is not one of
\* the seven opcodes yields UNKNOWN_OPCODE and decoding goes on at the next
\* byte, and when the bytes end inside an instruction exactly one
\* '(incomplete)' line is produced, as the last line.
C34_Terminates ==
    /\ []InsideBytes
    /\ [][Progress]_vars
    /\ (dis_state = "run") ~> (dis_state = "done")

\* an unknown opcode between two instructions, and the bytes end inside the
\* last one
C34_Witness ==
    /\ dis_state = "done"
    /\ dis_in = <<OP_JNZ, 0, 1, 0, 0, 0, OP_WAIT, 1>>
    /\ Len(instructions) = 3
    /\ instructions[2].mnemonic = "UNKNOWN_OPCODE"
    /\ instructions[3].incomplete

(***************************************************************************)
(* C35: upload --execute.                                                  *)
(***************************************************************************)
ExecuteFrames ==
    { i \in 1..Len(wire) :
         wire[i].command \in {CMD_FLASH_PROGRAM_EXECUTE, CMD_RAM_PROGRAM_EXECUTE} }

ExecuteRequests ==
    { i \in 1..Len(http_log) : http_log[i].request.path = "/api/program/execute" }

CallReturned(ok) == CallEnded /\ CallRet.kind = "return" /\ CallRet.ok = ok

\* an EXECUTE frame or request of the upload command belongs to its
\* execute_program call, for the target of the command line, on the
\* transport object that is not yet closed
ExecuteOnlyInExecute ==
    (cli.command = "upload" /\ (ExecuteFrames # {} \/ ExecuteRequests # {})) =>
       /\ cli.execute
       /\ cli.pc = "call"
       /\ cli.call.name = "execute_program"
       /\ cli.config = "open" /\ cli.closes = 0
       /\ \A i \in ExecuteFrames :
             /\ cli.interface = "usb"
             /\ wire[i].command = IF cli.call.target = "flash"
                                  THEN CMD_FLASH_PROGRAM_EXECUTE
                                  ELSE CMD_RAM_PROGRAM_EXECUTE
       /\ \A i \in ExecuteRequests :
             cli.interface = "http" /\ http_log[i].request.arg = cli.call.target

\* the upload command comes to execute_program only from an upload_program
\* that returned True, with the same target and transport
ExecuteAfterUpload ==
    (cli'.command = "upload" /\ cli'.call.name = "execute_program"
     /\ cli.call.name # "execute_program") =>
       /\ cli.command = "upload" /\ cli.pc = "call"
       /\ cli.call.name = "upload_program"
       /\ cli.execute
       /\ CallReturned(TRUE)
       /\ cli'.pc = "call"
       /\ cli'.call.target = cli.call.target
       /\ cli'.interface = cli.interface
       /\ cli'.config = "open" /\ cli'.closes = 0

\* after an upload_program that raised or returned False the command ends
\* with 1
FailedUploadEnds ==
    (cli.command = "upload" /\ cli.pc = "call" /\ cli.call.name = "upload_program"
     /\ CallEnded /\ ~CallReturned(TRUE) /\ cli' # cli) =>
       cli'.pc = "exit" /\ cli'.exit = 1

\* the upload command returns 0 only from a last operation that returned
\* True: execute_program with --execute, upload_program without
ZeroOnlyAfterSuccess ==
    (cli'.command = "upload" /\ cli'.pc = "exit" /\ cli.pc # "exit" /\ cli'.exit = 0) =>
       /\ cli.pc = "call"
       /\ CallReturned(TRUE)
       /\ cli.call.name = IF cli.execute THEN "execute_program" ELSE "upload_program"

\* C35: in the CLI command `upload --execute`, execute_program is called only
\* after upload_program returned success, on the same target and transport
\* object and before close(); when the upload fails no EXECUTE frame or
\* request is sent, and the command returns 0 only if both upload and execute
\* succeeded.
C35_UploadExecute ==
    /\ []ExecuteOnlyInExecute
    /\ [][ExecuteAfterUpload /\ FailedUploadEnds /\ ZeroOnlyAfterSuccess]_vars

\* upload --execute over USB: the EXECUTE frame was acknowledged
C35_Witness ==
    /\ cli.command = "upload" /\ cli.interface = "usb" /\ cli.execute
    /\ cli.call.name = "execute_program"
    /\ usb_pc = "done" /\ usb_ret = Returns(TRUE)
    /\ ExecuteFrames # {}

\* upload --execute over HTTP, returning 0
C35_WitnessHttp ==
    /\ cli.command = "upload" /\ cli.interface = "http" /\ cli.execute
    /\ cli.call.name = "execute_program"
    /\ cli.pc = "exit" /\ cli.exit = 0

\* upload --execute whose upload_program failed
C35_WitnessFailedUpload ==
    /\ cli.command = "upload" /\ cli.execute
    /\ cli.call.name = "upload_program"
    /\ cli.pc = "exit" /\ cli.exit = 1 /\ cli.config = "closed"

(***************************************************************************)
(* C36: compile returns bytecode only for the whole source.                *)
(***************************************************************************)
\* compile returned bytes(self.bytecode)
ReturnedBytecode == pc = "done" /\ exc = ""

\* C36: whenever compile returns bytecode, every token of the source up to
\* EOF was compiled or was a comment; a token that does not fit the grammar,
\* such as a closing brace with no open repeat block, makes compile raise
\* CompileError instead of returning the bytecode of the statements before it.
C36_WholeSource == ReturnedBytecode => Head(tokens).type = "EOF"

\* the part of C36 that holds: the closing brace is the only token at which
\* compile returns before EOF, and whatever else is left makes it raise
C36_OnlyClosingBrace ==
    /\ ReturnedBytecode => Head(tokens).type \in {"EOF", "BRACE_CLOSE"}
    /\ [][ (pc = "compile" /\ pc' = "done"
            /\ Head(tokens).type \notin {"COMMAND", "COMMENT", "BRACE_CLOSE", "EOF"})
              => exc' = "CompileError" ]_vars

\* `press A }` and more: the bytes of `press A` are returned with tokens left
C36_WitnessDropped ==
    /\ ReturnedBytecode
    /\ Head(tokens).type = "BRACE_CLOSE"
    /\ Len(tokens) > 2
    /\ result # <<>>

(***************************************************************************)
(* C37: the response send_command returns and the frame it wrote.          *)
(***************************************************************************)
\* send_command handed a response of the device to its caller
GaveResponse ==
    /\ usb_pc = "done"
    /\ usb_op.name = "send_command"
    /\ usb_ret.kind = "return"
    /\ mock.taken # 0

\* C37: every response send_command returns is the device's response to the
\* frame this call wrote; after an earlier command on the same handle timed
\* out, a late response to that earlier frame is never taken as the answer
\* to a later command.
C37_OwnResponse == GaveResponse => mock.taken = mock.sent

\* the part of C37 that holds: a call that wrote its frame when no frame
\* was unanswered and no report was waiting gets the response to its frame
C37_NothingInFlight == (GaveResponse /\ mock.clean) => mock.taken = mock.sent

\* READ_START returns the acknowledgement of the WRITE_CHUNK that timed out
C37_WitnessLate ==
    /\ GaveResponse
    /\ usb_op.value = CMD_RAM_PROGRAM_READ_START
    /\ mock.sent = 2 /\ mock.taken = 1
    /\ usb_ret.ok
    /\ usb_ret.data = OkFrame(<<>>).data

\* a call with nothing in flight, answered in time
C37_WitnessOwn ==
    /\ GaveResponse
    /\ mock.clean
    /\ mock.sent = 2 /\ mock.taken = 2

(***************************************************************************)
(* C38: the transport after close().                                       *)
(***************************************************************************)
\* what an operation called without a device gives: the four that raise,
\* and nvs_set, nvs_get, nvs_delete, which report failure
NotConnected ==
    usb_pc = "done" =>
       IF usb_op.name \in {"upload_program", "download_program", "execute_program",
                           "send_command"}
       THEN usb_ret = Raises("Device not connected")
       ELSE ReportsFailure(usb_ret)

\* a step of the closed transport that makes no call and leaves it without
\* a device, as a second close() does, changes nothing
SecondClose ==
    (mock.closed /\ device = "none" /\ usb_pc = "idle" /\ usb_pc' = "idle"
     /\ device' = "none") => UNCHANGED vars

\* C38: after close() and before a successful find_device() no operation
\* writes a frame: upload_program, download_program, execute_program and
\* send_command raise ODKeyUploadError('Device not connected'), nvs_set,
\* nvs_get and nvs_delete report failure; a second close() does nothing.
C38_AfterClose ==
    /\ [](mock.closed => (device # "open" /\ wire = <<>> /\ NotConnected))
    /\ [][SecondClose]_vars

\* the part of C38 that holds: no frame is written, every operation reports
\* failure, and with no find_device after the close (self.device is None)
\* each operation ends as C38 says
C38_NoFailedOpen ==
    /\ [](mock.closed =>
             /\ device # "open"
             /\ wire = <<>>
             /\ usb_pc = "done" => ReportsFailure(usb_ret)
             /\ device = "none" => NotConnected)
    /\ [][SecondClose]_vars

\* send_command after close() and a find_device whose open_path raised: it
\* returns (False, b'') instead of raising
C38_WitnessUnopened ==
    /\ mock.closed
    /\ device = "unopened"
    /\ usb_pc = "done"
    /\ usb_op.name = "send_command"
    /\ usb_ret = SendReturns(Resp("write_exception", <<>>))

\* upload_program after close()
C38_WitnessClosed ==
    /\ mock.closed
    /\ device = "none"
    /\ usb_pc = "done"
    /\ usb_op.name = "upload_program"
    /\ usb_ret = Raises("Device not connected")

(***************************************************************************)
(* C39: every name of KEY_MAP in `press K`.                                *)
(***************************************************************************)
\* compile of the text `press K` has ended
PressCompiled(K) == lex.pc = "done" /\ lex.source = PressText(K) /\ pc = "done"

\* KEYDN 0 1 [code] ; WAIT ; KEYUP 0 1 [code] ; WAIT with the default times
PressBytes(code) ==
    <<OP_KEYDN, 0, 1, code, OP_WAIT, 30, 0, OP_KEYUP, 0, 1, code, OP_WAIT, 30, 0>>

\* C39: every key name of the compiler's key table can be used in source:
\* for every name K of Lexer.KEY_MAP, the digit keys "0".."9" among them,
\* `press K` compiles to KEYDN 0 1 [KEY_MAP[K]] ; WAIT ; KEYUP 0 1
\* [KEY_MAP[K]] ; WAIT.
C39_EveryKeyName ==
    \A K \in DOMAIN KEY_MAP :
       PressCompiled(K) => (exc = "" /\ result = PressBytes(KEY_MAP[K]))

\* the part of C39 that holds: the names that do not begin with a digit
C39_NamesOfLetters ==
    \A K \in DOMAIN KEY_MAP :
       (PressCompiled(K) /\ ~IsDigit(Spelling[K][1]))
          => (exc = "" /\ result = PressBytes(KEY_MAP[K]))

\* `press 0`: the Lexer gives a NUMBER token and compile raises
C39_WitnessDigit ==
    /\ PressCompiled("0")
    /\ lex.tokens[2].type = "NUMBER"
    /\ exc = "CompileError"

\* `press KP_0`
C39_WitnessKeypad == PressCompiled("KP_0") /\ result = PressBytes(98)

(***************************************************************************)
(* C40: the name tables of the disassembler and of the compiler.           *)
(***************************************************************************)
\* the KEYDN of DisassembleKey has been disassembled
KeyListed == dis_state = "done" /\ Len(dis_in) = 4 /\ Len(instructions) = 1

\* the names of KEY_MAP for a code
NamesOf(code) == { K \in DOMAIN KEY_MAP : KEY_MAP[K] = code }

\* the names of the set bits of a modifier byte, lowest bit first
SetBitNames(modifier_byte) ==
    LET bits == SelectSeq(<<1, 2, 4, 8, 16, 32, 64, 128>>,
                          LAMBDA b : (modifier_byte \div b) % 2 = 1)
    IN  [i \in 1..Len(bits) |->
            CHOOSE n \in DOMAIN MODIFIER_MAP : MODIFIER_MAP[n] = bits[i]]

ModifiersInBitOrder == KeyListed => instructions[1].mods = SetBitNames(dis_in[2])

\* C40: the disassembler's key-name table is the inverse of the compiler's
\* key table: for every name K of Lexer.KEY_MAP format_keys([KEY_MAP[K]]) is
\* K, never a raw 0xNN code; and format_modifiers lists the names of exactly
\* the set bits of the modifier byte in ascending bit order.
C40_InverseTables ==
    /\ KeyListed =>
          \A K \in NamesOf(dis_in[4]) :
             instructions[1].keys = <<[name |-> K, hex |-> -1]>>
    /\ ModifiersInBitOrder

\* the part of C40 that holds: the codes that have an entry in KEY_NAMES
\* are rendered as the name KEY_MAP has for them, and the modifiers
C40_ListedCodes ==
    /\ (KeyListed /\ dis_in[4] \in DOMAIN KEY_NAMES) =>
          \A K \in NamesOf(dis_in[4]) :
             instructions[1].keys = <<[name |-> K, hex |-> -1]>>
    /\ ModifiersInBitOrder

\* MEDIA_EJECT (0xB3) is rendered as a raw code
C40_WitnessRaw ==
    /\ KeyListed
    /\ dis_in[4] = KEY_MAP["MEDIA_EJECT"]
    /\ instructions[1].keys = <<[name |-> "", hex |-> 179]>>

\* modifier byte 0x81 and the key ENTER
C40_WitnessNamed ==
    /\ KeyListed
    /\ dis_in = <<OP_KEYDN, 129, 1, 40>>
    /\ instructions[1].mods = <<"M_LEFTCTRL", "M_RIGHTGUI">>
    /\ instructions[1].keys = <<[name |-> "ENTER", hex |-> -1]>>
====
